---- MODULE Spec2Model ----
(***************************************************************************)
(* A model of the notion_md_converter conversion core:                     *)
(*   api_to_payload      (converters/api_to_payload.py)                    *)
(*   payload_to_markdown (converters/payload_to_markdown.py)               *)
(*   markdown_to_payload (converters/markdown_to_payload.py)               *)
(*                                                                         *)
(* Python dicts are functions whose domain is the set of keys present, so  *)
(* that `k in d`, d.get(k, default), d.pop(k) and del d[k] are what they   *)
(* are in the source.  Text is a sequence of one-character strings, so     *)
(* that formatting and parsing are computed character by character.        *)
(***************************************************************************)
EXTENDS Integers, Sequences, FiniteSets, TLC

VARIABLES
    pc,                                \* position of the driving caller
    api_response,                      \* the caller-owned snapshot handed to api_to_payload
    payload,                           \* the Document a conversion returned
    payload2,                          \* the Document of the second conversion
    markdown,                          \* the text payload_to_markdown returned
    markdown2,                         \* the text of the second serialization
    numbered_list_counters_by_indent,  \* NotionPayloadToMarkdownConverter instance field
    in_numbered_list_by_indent,        \* NotionPayloadToMarkdownConverter instance field
    outputs,                           \* what each convert_page call on the instance returned
    inputs,                            \* the documents handed to the instance, in call order
    requests,                          \* the calls the Notion client received, in order
    remote,                            \* the blocks the Notion workspace holds, per parent id
    frames                             \* the running calls of create_page_from_payload

vars == <<pc, api_response, payload, payload2, markdown, markdown2,
          numbered_list_counters_by_indent, in_numbered_list_by_indent,
          outputs, inputs, requests, remote, frames>>

\* The variables of create_page_from_payload and its client.
upload_vars == <<requests, remote, frames>>

\* A variable a specification does not use holds this value throughout.
Unused == "unused"

-----------------------------------------------------------------------------
(* Bounds of the model *)

\* Longest rich_text array of a generated block.
MaxSpans == 2
\* Longest sibling sequence of a generated block tree.
MaxSiblings == 2
\* Most top-level blocks of the first document handed to a converter instance.
MaxBlocks == 3
\* Most top-level blocks of a document handed to an instance already used.
MaxReuseBlocks == 1
\* Most convert_page calls on one converter instance.
MaxCalls == 2
\* Most fragments of a generated inline text.
MaxFragments == 3
\* Deepest nesting of a generated chain of list items.
MaxDepth == 3
\* Largest ordinal of a generated ordered-list marker.
MaxCount == 30

-----------------------------------------------------------------------------
(* Python dict and list helpers *)

EmptyDict == [k \in {} |-> TRUE]

Has(d, k) == k \in DOMAIN d

Get(d, k, default) == IF k \in DOMAIN d THEN d[k] ELSE default

Put(d, k, v) == [x \in (DOMAIN d) \cup {k} |-> IF x = k THEN v ELSE d[x]]

Del(d, k) == [x \in (DOMAIN d) \ {k} |-> d[x]]

\* "".join(parts) for a list of texts
RECURSIVE Join(_)
Join(parts) == IF parts = <<>> THEN <<>> ELSE Head(parts) \o Join(Tail(parts))

\* All sequences over S of length lo..hi
SeqsOf(S, lo, hi) == UNION {[1..n -> S] : n \in lo..hi}

-----------------------------------------------------------------------------
(* NotionApiToPayloadConverter *)

\* The keys _clean_block pops from the copy of a block.
AuditKeys == {"id", "parent", "created_time", "last_edited_time", "created_by",
              "last_edited_by", "has_children", "archived", "object", "in_trash"}

\* _clean_rich_text's inner _clean_rich_text_item
clean_rich_text_item(item) ==
    LET item_type == Get(item, "type", "None")
        withAnn(c) == IF Has(item, "annotations")
                      THEN Put(c, "annotations", item.annotations) ELSE c
    IN  CASE item_type = "text" ->
               LET text == Get(item, "text", EmptyDict)
                   base == [content |-> Get(text, "content", <<>>)]
                   t    == IF Has(text, "link") THEN Put(base, "link", text.link) ELSE base
               IN  withAnn([type |-> "text", text |-> t])
          [] item_type = "mention" ->
               LET mention == Get(item, "mention", EmptyDict)
                   mention_type == Get(mention, "type", "None")
                   cleaned ==
                     CASE mention_type = "user" ->
                            LET user == Get(mention, "user", EmptyDict)
                            IN  IF Has(user, "id")
                                THEN [type |-> "user",
                                      user |-> Put([id |-> user.id], "_name",
                                                   Get(user, "name", "None"))]
                                ELSE [type |-> "user"]
                       [] mention_type = "page" ->
                            LET page == Get(mention, "page", EmptyDict)
                            IN  IF Has(page, "id")
                                THEN [type |-> "page", page |-> [id |-> page.id]]
                                ELSE [type |-> "page"]
                       [] mention_type = "database" ->
                            LET database == Get(mention, "database", EmptyDict)
                            IN  IF Has(database, "id")
                                THEN [type |-> "database", database |-> [id |-> database.id]]
                                ELSE [type |-> "database"]
                       [] mention_type = "date" ->
                            IF Has(mention, "date")
                            THEN [type |-> "date", date |-> mention.date]
                            ELSE [type |-> "date"]
                       [] OTHER -> IF mention_type = "None" THEN EmptyDict
                                   ELSE [type |-> mention_type]
               IN  withAnn([type |-> "mention", mention |-> cleaned])
          [] item_type = "equation" ->
               withAnn([type |-> "equation",
                        equation |-> [expression |->
                            Get(Get(item, "equation", EmptyDict), "expression", <<>>)]])
          [] OTHER ->
               LET plain == Get(item, "plain_text", <<>>)
                   fallback_text == IF plain # <<>> THEN plain
                                    ELSE Get(Get(item, "text", EmptyDict), "content", <<>>)
               IN  withAnn([type |-> "text", text |-> [content |-> fallback_text]])

\* _clean_rich_text: clean each item, drop the text items with neither content nor link
RECURSIVE clean_rich_text(_)
clean_rich_text(rich_text_array) ==
    IF rich_text_array = <<>> THEN <<>>
    ELSE LET cleaned_item == clean_rich_text_item(Head(rich_text_array))
             rest == clean_rich_text(Tail(rich_text_array))
         IN  IF /\ cleaned_item.type = "text"
                /\ Get(cleaned_item.text, "content", <<>>) = <<>>
                /\ ~Has(cleaned_item.text, "link")
             THEN rest
             ELSE <<cleaned_item>> \o rest

\* _flatten_grouping_blocks: a bulleted_list / numbered_list wrapper is replaced
\* by its children (top-level ones, else the ones under its type key)
RECURSIVE flatten_grouping_blocks(_)
flatten_grouping_blocks(children) ==
    IF children = <<>> THEN <<>>
    ELSE LET child == Head(children)
             block_type == Get(child, "type", "None")
             nested == IF Has(child, "children") THEN child.children
                       ELSE IF Has(child, block_type) /\ Has(child[block_type], "children")
                            THEN child[block_type].children
                            ELSE <<>>
         IN  (IF block_type \in {"bulleted_list", "numbered_list"}
              THEN nested ELSE <<child>>)
             \o flatten_grouping_blocks(Tail(children))

\* _clean_block and _clean_and_flatten_child.  block.copy() is a shallow copy:
\* the copy's top-level keys are its own, the dict under the type key and the
\* child blocks are the caller's objects.  Each operator returns
\*   ret: the block the method returns,
\*   arg: the caller's block as the call leaves it.
RECURSIVE clean_block(_), clean_and_flatten_child(_)

CleanChildren(children) ==
    [i \in 1..Len(children) |-> clean_and_flatten_child(children[i])]

Rets(results) == [i \in 1..Len(results) |-> results[i].ret]

Args(results) == [i \in 1..Len(results) |-> results[i].arg]

\* the code-block branch (source lines 310-321); `code` is the dict under the
\* type key after block["code"]["rich_text"] = [...], which writes into the
\* dict the copy shares with the caller's block; `kids` are the results of
\* cleaning the top-level children
code_block_result(block0, block, code, kids) ==
    [ret |-> IF Has(block, "children")
             THEN Put(Put(block, "code", code), "children",
                      flatten_grouping_blocks(Rets(kids)))
             ELSE Put(block, "code", code),
     arg |-> IF Has(block0, "children")
             THEN Put(Put(block0, "code", code), "children", Args(kids))
             ELSE Put(block0, "code", code)]

clean_code_block(block0, block) ==
    code_block_result(block0, block,
        Put(block.code, "rich_text",
            <<[type |-> "text",
               text |-> [content |->
                   Join([i \in 1..Len(block.code.rich_text) |->
                            Get(block.code.rich_text[i], "plain_text", <<>>)])]]>>),
        IF Has(block, "children") THEN CleanChildren(block.children) ELSE <<>>)

\* source lines 367-372: every top-level child of the copy is cleaned and
\* flattened.  b3 is the copy, p3 the dict under the type key, movedArgs the
\* caller's children a column / column_list branch already cleaned, kids the
\* results of cleaning b3's children (the caller's own children come first).
other_block_result(block0, block_type, typed, move, movedArgs, b3, p3, kids) ==
    [ret |-> LET b4 == IF Has(b3, "children")
                       THEN Put(b3, "children", flatten_grouping_blocks(Rets(kids)))
                       ELSE b3
             IN  IF typed THEN Put(b4, block_type, p3) ELSE b4,
     arg |-> LET a1 == IF typed THEN Put(block0, block_type, p3) ELSE block0
             IN  IF Has(block0, "children")
                 THEN Put(a1, "children",
                          IF move THEN movedArgs
                          ELSE [i \in 1..Len(block0.children) |-> kids[i].arg])
                 ELSE a1]

other_block_children(block0, block_type, typed, move, movedArgs, b3, p3) ==
    other_block_result(block0, block_type, typed, move, movedArgs, b3, p3,
        IF Has(b3, "children") THEN CleanChildren(b3.children) ELSE <<>>)

\* source lines 353-365: children under the type key are cleaned and hoisted
\* behind the existing top-level children, and removed from under the type
\* key; not for column_list and column.  b1 is the copy and p2 the dict under
\* the type key so far.
other_block_hoist(block0, block_type, typed, move, movedArgs, b1, p2) ==
    IF typed /\ block_type \notin {"column_list", "column"} /\ Has(p2, "children")
    THEN other_block_children(block0, block_type, typed, move, movedArgs,
             Put(b1, "children",
                 Get(b1, "children", <<>>)
                 \o flatten_grouping_blocks(
                        [i \in 1..Len(p2.children) |-> clean_block(p2.children[i]).ret])),
             Del(p2, "children"))
    ELSE other_block_children(block0, block_type, typed, move, movedArgs, b1, p2)

\* source lines 350-352: the rich_text array under the type key is cleaned
other_block_rich_text(block0, block_type, typed, move, movedArgs, b1, p1) ==
    other_block_hoist(block0, block_type, typed, move, movedArgs, b1,
        IF typed /\ Has(p1, "rich_text")
        THEN Put(p1, "rich_text", clean_rich_text(p1.rich_text)) ELSE p1)

\* source lines 325-349: a column / column_list moves its cleaned top-level
\* children under the type key (the dict shared with the caller's block) and
\* deletes them from the copy
other_block_moved(block0, block, block_type, typed, move, moved) ==
    other_block_rich_text(block0, block_type, typed, move, Args(moved),
        IF move THEN Del(block, "children") ELSE block,
        IF move THEN Put(block[block_type], "children",
                         flatten_grouping_blocks(Rets(moved)))
        ELSE IF typed THEN block[block_type] ELSE EmptyDict)

\* the branch of every other block (source lines 323-372)
clean_other_block(block0, block, block_type) ==
    LET typed == block_type # "None" /\ Has(block, block_type)
        move  == typed /\ block_type \in {"column", "column_list"} /\ Has(block, "children")
    IN  other_block_moved(block0, block, block_type, typed, move,
            IF move THEN CleanChildren(block.children) ELSE <<>>)

clean_block(block0) ==
    LET block == [k \in (DOMAIN block0) \ AuditKeys |-> block0[k]]
        block_type == Get(block, "type", "None")
    IN  IF block_type = "code" /\ Has(Get(block, "code", EmptyDict), "rich_text")
        THEN clean_code_block(block0, block)
        ELSE clean_other_block(block0, block, block_type)

clean_and_flatten_child(child) ==
    LET r == clean_block(child)
    IN  [ret |-> IF Has(r.ret, "children")
                 THEN Put(r.ret, "children", flatten_grouping_blocks(r.ret.children))
                 ELSE r.ret,
         arg |-> r.arg]

\* NotionApiToPayloadConverter.convert_page for a bare list of blocks
\* (isinstance(api_response, list), source lines 29-37)
convert_page_list(blocks) ==
    LET cleaned == [i \in 1..Len(blocks) |-> clean_block(blocks[i])]
    IN  [ret |-> [parent |-> [page_id |-> "placeholder"],
                  properties |-> EmptyDict,
                  children |-> flatten_grouping_blocks(
                                   [i \in 1..Len(cleaned) |-> cleaned[i].ret])],
         arg |-> [i \in 1..Len(cleaned) |-> cleaned[i].arg]]

\* NotionApiToPayloadConverter.convert_page for a page object (source lines
\* 39-55); the page objects of this model carry an empty properties mapping,
\* which _clean_properties maps to an empty mapping.
convert_page_object(page) ==
    LET blocks  == Get(page, "children", <<>>)
        cleaned == [i \in 1..Len(blocks) |-> clean_block(blocks[i])]
    IN  [ret |-> [parent |-> [page_id |-> "placeholder"],
                  properties |-> EmptyDict,
                  children |-> flatten_grouping_blocks(
                                   [i \in 1..Len(cleaned) |-> cleaned[i].ret])],
         arg |-> IF Has(page, "children")
                 THEN Put(page, "children", [i \in 1..Len(cleaned) |-> cleaned[i].arg])
                 ELSE page]

-----------------------------------------------------------------------------
(* Snapshots handed to api_to_payload *)

NoStyle == [bold |-> FALSE, italic |-> FALSE, strikethrough |-> FALSE,
            underline |-> FALSE, code |-> FALSE, color |-> "default"]

\* A text span as the API returns it: content, plain_text and annotations.
ApiSpan(content, plain) ==
    [type |-> "text", text |-> [content |-> content], plain_text |-> plain,
     annotations |-> NoStyle]

\* The spans of generated snapshots: a plain one, one whose content lost the
\* line break its plain_text still has, and an empty one.
ApiSpans == {ApiSpan(<<"a">>, <<"a">>),
             ApiSpan(<<"b">>, <<"b", "\n">>),
             ApiSpan(<<>>, <<>>)}

ApiRichTexts == SeqsOf(ApiSpans, 0, MaxSpans)

\* A snapshot block: every audit field of the API, the type and its payload.
ApiBlock(type, data) ==
    Put([object |-> "block", id |-> "id", parent |-> "parent",
         created_time |-> "t0", last_edited_time |-> "t1",
         created_by |-> "u0", last_edited_by |-> "u1",
         has_children |-> FALSE, archived |-> FALSE, in_trash |-> FALSE,
         type |-> type],
        type, data)

\* Where a snapshot keeps a block's children: at the top level ("top"), under
\* the type key ("nested").
WithChildren(block, shape, kids) ==
    IF shape = "top" THEN Put(Put(block, "children", kids), "has_children", TRUE)
    ELSE Put(Put(block, block.type, Put(block[block.type], "children", kids)),
             "has_children", TRUE)

ApiLeaves ==
    {ApiBlock(t, [rich_text |-> rt]) : t \in {"paragraph", "code"}, rt \in ApiRichTexts}

\* The leaves used below a parent.
ApiChildLeaves ==
    {ApiBlock("paragraph", [rich_text |-> <<ApiSpan(<<"a">>, <<"a">>)>>]),
     ApiBlock("paragraph", [rich_text |-> <<ApiSpan(<<>>, <<>>)>>]),
     ApiBlock("code", [rich_text |-> <<ApiSpan(<<"b">>, <<"b", "\n">>),
                                       ApiSpan(<<"a">>, <<"a">>)>>])}

ApiParents ==
    {ApiBlock("toggle", [rich_text |-> <<ApiSpan(<<"a">>, <<"a">>)>>]),
     ApiBlock("bulleted_list", EmptyDict),
     ApiBlock("column", EmptyDict)}

ApiLevel1 ==
    {WithChildren(p, shape, kids) :
        p \in ApiParents, shape \in {"top", "nested"},
        kids \in SeqsOf(ApiChildLeaves, 1, MaxSiblings)}

ApiLevel2 ==
    {WithChildren(p, shape, <<kid>>) :
        p \in {ApiBlock("toggle", [rich_text |-> <<ApiSpan(<<"a">>, <<"a">>)>>]),
               ApiBlock("numbered_list", EmptyDict),
               ApiBlock("column_list", EmptyDict)},
        shape \in {"top", "nested"},
        kid \in ApiLevel1}

Snapshots ==
    {<<b>> : b \in ApiLeaves \cup ApiLevel1 \cup ApiLevel2}
    \cup SeqsOf(ApiChildLeaves, 2, MaxSiblings)

-----------------------------------------------------------------------------
(* api_to_payload called on a snapshot, and called again on what it returned *)

InitSanitize ==
    /\ requests = Unused
    /\ remote = Unused
    /\ frames = Unused
    /\ pc = "snapshot"
    /\ api_response \in Snapshots
    /\ payload = Unused
    /\ payload2 = Unused
    /\ markdown = Unused
    /\ markdown2 = Unused
    /\ numbered_list_counters_by_indent = Unused
    /\ in_numbered_list_by_indent = Unused
    /\ outputs = Unused
    /\ inputs = api_response

\* payload = api_to_payload(api_response); the snapshot is the caller's list,
\* left as the call leaves it.
ApiToPayload ==
    /\ pc = "snapshot"
    /\ LET r == convert_page_list(api_response)
       IN  /\ payload' = r.ret
           /\ api_response' = r.arg
    /\ pc' = "payload"
    /\ UNCHANGED <<payload2, markdown, markdown2, numbered_list_counters_by_indent,
                   in_numbered_list_by_indent, outputs, inputs>>
    /\ UNCHANGED upload_vars

\* payload2 = api_to_payload(payload): the returned page object is fed back.
ApiToPayloadAgain ==
    /\ pc = "payload"
    /\ payload2' = convert_page_object(payload).ret
    /\ pc' = "payload2"
    /\ UNCHANGED <<api_response, payload, markdown, markdown2,
                   numbered_list_counters_by_indent, in_numbered_list_by_indent,
                   outputs, inputs>>
    /\ UNCHANGED upload_vars

NextSanitize == ApiToPayload \/ ApiToPayloadAgain

SpecSanitize == InitSanitize /\ [][NextSanitize]_vars

-----------------------------------------------------------------------------
(* Properties of api_to_payload *)

\* The blocks of a block list at every depth: the list's own blocks, the ones
\* in their top-level children and the ones in the children under a type key.
RECURSIVE AllBlocks(_)
AllBlocks(blocks) ==
    IF blocks = <<>> THEN <<>>
    ELSE LET b == Head(blocks)
             data == Get(b, Get(b, "type", "None"), EmptyDict)
         IN  <<b>> \o AllBlocks(Get(b, "children", <<>>))
                 \o AllBlocks(Get(data, "children", <<>>))
                 \o AllBlocks(Tail(blocks))

\* The content of each span of a rich_text array.
SpanContents(rich_text) ==
    [i \in 1..Len(rich_text) |->
        Get(Get(rich_text[i], "text", EmptyDict), "content", <<>>)]

\* The block tree of a block list: per block its type, the contents of its
\* spans and the trees of its children, at the top level and under the type key.
RECURSIVE TreeOf(_)
TreeOf(blocks) ==
    [i \in 1..Len(blocks) |->
        LET b == blocks[i]
            data == Get(b, Get(b, "type", "None"), EmptyDict)
        IN  [type |-> Get(b, "type", "None"),
             text |-> SpanContents(Get(data, "rich_text", <<>>)),
             children |-> TreeOf(Get(b, "children", <<>>)),
             nested |-> TreeOf(Get(data, "children", <<>>))]]

\* C5: sanitize is idempotent: api_to_payload applied to the payload it
\* returned yields the same block tree with the same span contents, for every
\* block kind, code blocks included.
C5_SanitizeIdempotent ==
    pc = "payload2" => TreeOf(payload2.children) = TreeOf(payload.children)

\* C6: api_to_payload leaves the caller's snapshot unchanged (`inputs` holds
\* the snapshot as it was before the call).
C6_SnapshotUnchanged ==
    pc # "snapshot" => api_response = inputs

\* C7: no block of the returned payload, at any depth, carries an audit key.
C7_NoAuditKeys ==
    pc = "payload" =>
        \A i \in 1..Len(AllBlocks(payload.children)) :
            (DOMAIN AllBlocks(payload.children)[i]) \cap AuditKeys = {}

\* The rich_text arrays of the code blocks of a block list, in document order.
CodeRichTexts(blocks) ==
    LET all == AllBlocks(blocks)
    IN  [i \in 1..Cardinality({k \in 1..Len(all) : all[k].type = "code"}) |->
            LET k == CHOOSE k \in 1..Len(all) :
                        /\ all[k].type = "code"
                        /\ Cardinality({m \in 1..k : all[m].type = "code"}) = i
            IN  all[k].code.rich_text]

\* C8: every code block of the snapshot, wherever it sits, comes out with
\* exactly one plain text span holding the concatenation of the plain_text of
\* its original spans.
C8_CodePlainTextKept ==
    pc = "payload" =>
        LET before == CodeRichTexts(inputs)
            after  == CodeRichTexts(payload.children)
        IN  /\ Len(after) = Len(before)
            /\ \A i \in 1..Len(after) :
                   after[i] = <<[type |-> "text",
                                 text |-> [content |->
                                    Join([k \in 1..Len(before[i]) |->
                                             Get(before[i][k], "plain_text", <<>>)])]]>>

-----------------------------------------------------------------------------
(* Text helpers: str.split, "\n".join, str(int), " " * n *)

\* A character is a one-character string.  The grave accent, which a TLA+
\* string cannot hold, and an emoji, which is one code point above 127, are
\* characters under these names.
Backtick == "BACKTICK"

Emoji == "EMOJI"

Spaces(n) == [i \in 1..n |-> " "]

\* sep.join(parts) for a one-character separator
RECURSIVE JoinWith(_, _)
JoinWith(parts, sep) ==
    IF parts = <<>> THEN <<>>
    ELSE IF Len(parts) = 1 THEN parts[1]
    ELSE parts[1] \o <<sep>> \o JoinWith(Tail(parts), sep)

\* text.split(sep) for a one-character separator: the pieces between the
\* occurrences of sep, "" splitting into [""]
Split(text, sep) ==
    LET at == {i \in 1..Len(text) : text[i] = sep}
        \* the position of the k-th separator, 0 before the first piece and
        \* Len(text) + 1 behind the last
        cut(k) == IF k = 0 THEN 0
                  ELSE IF k > Cardinality(at) THEN Len(text) + 1
                  ELSE CHOOSE p \in at : Cardinality({q \in at : q <= p}) = k
    IN  [k \in 1..(Cardinality(at) + 1) |-> SubSeq(text, cut(k - 1) + 1, cut(k) - 1)]

DigitChars == <<"0", "1", "2", "3", "4", "5", "6", "7", "8", "9">>

\* str(n) for n >= 0
RECURSIVE Str(_)
Str(n) == IF n < 10 THEN <<DigitChars[n + 1]>>
          ELSE Str(n \div 10) \o <<DigitChars[(n % 10) + 1]>>

\* a list without its trailing "" entries (while lines and lines[-1] == "": pop)
RECURSIVE TrimTrailingEmpty(_)
TrimTrailingEmpty(lines) ==
    IF lines # <<>> /\ lines[Len(lines)] = <<>>
    THEN TrimTrailingEmpty(SubSeq(lines, 1, Len(lines) - 1))
    ELSE lines

-----------------------------------------------------------------------------
(* Text helpers of the parser: str.strip, str.startswith, `in`, and the      *)
(* matching of the regular expressions the parser uses                       *)

\* The characters \s matches and str.strip() removes.
Whitespace == {" ", "\t", "\n", "\r"}

DigitSet == {"0", "1", "2", "3", "4", "5", "6", "7", "8", "9"}

\* [a-zA-Z] over the letters the texts of this model are made of
LetterSet == {"a", "b", "c", "d", "e", "f", "g", "h", "i", "j", "k", "l", "m",
              "n", "o", "p", "q", "r", "s", "t", "u", "v", "w", "x", "y", "z",
              "A", "B", "C", "D", "E", "F", "G", "H", "I", "J", "K", "L", "M",
              "N", "O", "P", "Q", "R", "S", "T", "U", "V", "W", "X", "Y", "Z"}

\* (?i:[ivxlcdm])
RomanSet == {"i", "v", "x", "l", "c", "d", "m", "I", "V", "X", "L", "C", "D", "M"}

MinOf(S) == CHOOSE x \in S : \A y \in S : x <= y

MaxOf(S) == CHOOSE x \in S : \A y \in S : x >= y

\* The number of characters from position pos on that are in (not in) C.
RunIn(text, pos, C) ==
    LET stops == {j \in pos..Len(text) : text[j] \notin C}
    IN  IF stops = {} THEN Len(text) + 1 - pos ELSE MinOf(stops) - pos

RunNotIn(text, pos, C) ==
    LET stops == {j \in pos..Len(text) : text[j] \in C}
    IN  IF stops = {} THEN Len(text) + 1 - pos ELSE MinOf(stops) - pos

\* text[pos:] with 1-based pos
From(text, pos) == SubSeq(text, pos, Len(text))

LStrip(text) == From(text, RunIn(text, 1, Whitespace) + 1)

RStrip(text) ==
    LET keep == {j \in 1..Len(text) : text[j] \notin Whitespace}
    IN  IF keep = {} THEN <<>> ELSE SubSeq(text, 1, MaxOf(keep))

Strip(text) == LStrip(RStrip(text))

\* text[pos:].startswith(prefix)
StartsAt(text, pos, prefix) ==
    /\ pos + Len(prefix) - 1 <= Len(text)
    /\ SubSeq(text, pos, pos + Len(prefix) - 1) = prefix

StartsWith(text, prefix) == StartsAt(text, 1, prefix)

\* sub in text
Contains(text, sub) == \E i \in 1..(Len(text) + 1) : StartsAt(text, i, sub)

\* The elements a pattern is made of: a literal, a run [^c]+ that is a group,
\* and \s+.  In every pattern of the parser a run is followed by a literal
\* that starts with the excluded character, and \s+ by a character that is no
\* whitespace, so the longest run is the only one that can match.
Lit(s) == [kind |-> "lit", s |-> s]

RunNot(c) == [kind |-> "run", c |-> c]

Blank == [kind |-> "ws"]

NoMatch == [ok |-> FALSE, end |-> 0, groups |-> <<>>]

\* The match of the elements k.. of a pattern at position pos of text: end is
\* the position behind the match, groups the texts of the runs.
RECURSIVE MatchFrom(_, _, _, _, _)
MatchFrom(pattern, k, text, pos, groups) ==
    IF k > Len(pattern) THEN [ok |-> TRUE, end |-> pos, groups |-> groups]
    ELSE CASE pattern[k].kind = "lit" ->
                IF StartsAt(text, pos, pattern[k].s)
                THEN MatchFrom(pattern, k + 1, text, pos + Len(pattern[k].s), groups)
                ELSE NoMatch
           [] pattern[k].kind = "run" ->
                IF RunNotIn(text, pos, {pattern[k].c}) >= 1
                THEN MatchFrom(pattern, k + 1, text,
                               pos + RunNotIn(text, pos, {pattern[k].c}),
                               Append(groups,
                                      SubSeq(text, pos,
                                             pos + RunNotIn(text, pos, {pattern[k].c}) - 1)))
                ELSE NoMatch
           [] pattern[k].kind = "ws" ->
                IF RunIn(text, pos, Whitespace) >= 1
                THEN MatchFrom(pattern, k + 1, text,
                               pos + RunIn(text, pos, Whitespace), groups)
                ELSE NoMatch

\* re.search(pattern, text): the first position a match starts at, 0 for None
SearchStart(pattern, text) ==
    LET starts == {i \in 1..Len(text) : MatchFrom(pattern, 1, text, i, <<>>).ok}
    IN  IF starts = {} THEN 0 ELSE MinOf(starts)

-----------------------------------------------------------------------------
(* Dates: datetime.fromisoformat / strftime("%B %d, %Y") of the serializer   *)
(* and datetime.strptime(text, "%B %d, %Y") / strftime("%Y-%m-%d") of the    *)
(* parser, for dates written YYYY-MM-DD and "Month D, YYYY" with the English *)
(* month names capitalised and single spaces                                 *)

MonthNames == <<
    <<"J", "a", "n", "u", "a", "r", "y">>,
    <<"F", "e", "b", "r", "u", "a", "r", "y">>,
    <<"M", "a", "r", "c", "h">>,
    <<"A", "p", "r", "i", "l">>,
    <<"M", "a", "y">>,
    <<"J", "u", "n", "e">>,
    <<"J", "u", "l", "y">>,
    <<"A", "u", "g", "u", "s", "t">>,
    <<"S", "e", "p", "t", "e", "m", "b", "e", "r">>,
    <<"O", "c", "t", "o", "b", "e", "r">>,
    <<"N", "o", "v", "e", "m", "b", "e", "r">>,
    <<"D", "e", "c", "e", "m", "b", "e", "r">> >>

DigitValue(c) == CHOOSE v \in 0..9 : DigitChars[v + 1] = c

AllDigits(text) == text # <<>> /\ \A i \in 1..Len(text) : text[i] \in {"0", "1", "2", "3", "4", "5", "6", "7", "8", "9"}

\* int(text) for a text of digits
RECURSIVE IntOf(_)
IntOf(text) ==
    IF text = <<>> THEN 0
    ELSE 10 * IntOf(SubSeq(text, 1, Len(text) - 1)) + DigitValue(text[Len(text)])

\* n written with at least w digits
Padded(n, w) ==
    LET digits == Str(n)
    IN  [i \in 1..(IF Len(digits) < w THEN w - Len(digits) ELSE 0) |-> "0"] \o digits

DaysIn(month, year) ==
    IF month = 2
    THEN (IF year % 4 = 0 /\ (year % 100 # 0 \/ year % 400 = 0) THEN 29 ELSE 28)
    ELSE IF month \in {4, 6, 9, 11} THEN 30 ELSE 31

ValidDate(year, month, day) ==
    year >= 1 /\ month \in 1..12 /\ day >= 1 /\ day <= DaysIn(month, year)

\* dt.strftime('%B %d, %Y') of datetime.fromisoformat(start_date), and
\* start_date itself where fromisoformat raises
iso_to_readable(start_date) ==
    IF /\ Len(start_date) = 10
       /\ start_date[5] = "-" /\ start_date[8] = "-"
       /\ AllDigits(SubSeq(start_date, 1, 4))
       /\ AllDigits(SubSeq(start_date, 6, 7))
       /\ AllDigits(SubSeq(start_date, 9, 10))
       /\ ValidDate(IntOf(SubSeq(start_date, 1, 4)), IntOf(SubSeq(start_date, 6, 7)),
                    IntOf(SubSeq(start_date, 9, 10)))
    THEN MonthNames[IntOf(SubSeq(start_date, 6, 7))] \o <<" ">>
         \o SubSeq(start_date, 9, 10) \o <<",", " ">> \o SubSeq(start_date, 1, 4)
    ELSE start_date

\* _parse_date_to_iso
parse_date_to_iso(date_text) ==
    LET months == {m \in 1..12 : StartsWith(date_text, MonthNames[m] \o <<" ">>)}
        month == MinOf(months)
        dayAt == Len(MonthNames[month]) + 2
        dayLen == RunIn(date_text, dayAt, {"0", "1", "2", "3", "4", "5", "6", "7", "8", "9"})
        year == From(date_text, dayAt + dayLen + 2)
    IN  IF /\ months # {}
           /\ dayLen \in {1, 2}
           /\ StartsAt(date_text, dayAt + dayLen, <<",", " ">>)
           /\ Len(year) = 4 /\ AllDigits(year)
           /\ ValidDate(IntOf(year), month,
                        IntOf(SubSeq(date_text, dayAt, dayAt + dayLen - 1)))
        THEN year \o <<"-">> \o Padded(month, 2) \o <<"-">>
             \o Padded(IntOf(SubSeq(date_text, dayAt, dayAt + dayLen - 1)), 2)
        ELSE date_text

-----------------------------------------------------------------------------
(* NotionPayloadToMarkdownConverter: rich text and ordered-list markers *)

\* A rendering that would wrap a code span's content in backticks and keep
\* the bold marker around it.
AnnotatedContentCodeKeepsBold(content, annotations, text_data) ==
    LET coded == IF Get(annotations, "code", FALSE)
                 THEN <<Backtick>> \o content \o <<Backtick>> ELSE content
    IN  IF Get(annotations, "bold", FALSE) THEN <<"*", "*">> \o coded \o <<"*", "*">>
        ELSE coded

\* The annotated form of a text span's content (source lines 500-523); a
\* link a span carries is a dict, never None.
AnnotatedContent(content, annotations, text_data) ==
    LET flag(k) == Get(annotations, k, FALSE)
        emph == IF flag("bold") /\ flag("italic")
                THEN <<"*", "*", "*">> \o content \o <<"*", "*", "*">>
                ELSE IF flag("bold") THEN <<"*", "*">> \o content \o <<"*", "*">>
                ELSE IF flag("italic") THEN <<"*">> \o content \o <<"*">>
                ELSE content
        struck == IF flag("strikethrough")
                  THEN <<"~", "~">> \o emph \o <<"~", "~">> ELSE emph
        under == IF flag("underline")
                 THEN <<"<", "u", ">">> \o struck \o <<"<", "/", "u", ">">> ELSE struck
        styled == IF flag("code") THEN <<Backtick>> \o content \o <<Backtick>> ELSE under
    IN  IF Has(text_data, "link")
        THEN <<"[">> \o styled \o <<"]", "(">> \o text_data.link.url \o <<")">>
        ELSE styled

\* One iteration of the loop of _convert_rich_text: what the span appends.
convert_rich_text_item(text_obj) ==
    LET text_type == Get(text_obj, "type", "None")
    IN  CASE text_type = "text" ->
               LET text_data == Get(text_obj, "text", EmptyDict)
               IN  AnnotatedContent(Get(text_data, "content", <<>>),
                                    Get(text_obj, "annotations", EmptyDict),
                                    text_data)
          [] text_type = "equation" ->
               <<"$">> \o Get(Get(text_obj, "equation", EmptyDict), "expression", <<>>)
                       \o <<"$">>
          [] text_type = "mention" ->
               LET mention_data == Get(text_obj, "mention", EmptyDict)
                   mention_type == Get(mention_data, "type", "None")
               IN  CASE mention_type = "user" ->
                          LET user_data == Get(mention_data, "user", EmptyDict)
                          IN  <<"<", "n", "o", "t", "i", "o", "n", "-", "u", "s", "e", "r",
                                " ", "i", "d", "=", "\"">>
                              \o Get(user_data, "id", <<>>) \o <<"\"", ">", "@">>
                              \o Get(user_data, "_name", <<"U", "s", "e", "r">>)
                              \o <<"<", "/", "n", "o", "t", "i", "o", "n", "-", "u", "s",
                                   "e", "r", ">">>
                     [] mention_type = "page" ->
                          <<"<", "n", "o", "t", "i", "o", "n", "-", "p", "a", "g", "e",
                            " ", "i", "d", "=", "\"">>
                          \o Get(Get(mention_data, "page", EmptyDict), "id", <<>>)
                          \o <<"\"", ">", "<", "/", "n", "o", "t", "i", "o", "n", "-",
                               "p", "a", "g", "e", ">">>
                     [] mention_type = "date" ->
                          LET start_date ==
                                  Get(Get(mention_data, "date", EmptyDict), "start", <<>>)
                          IN  IF start_date = <<>> THEN <<>>
                              ELSE <<"<", "n", "o", "t", "i", "o", "n", "-", "d", "a",
                                     "t", "e", ">">>
                                   \o iso_to_readable(start_date)
                                   \o <<"<", "/", "n", "o", "t", "i", "o", "n", "-", "d",
                                        "a", "t", "e", ">">>
                     [] OTHER -> <<>>
          [] OTHER ->
               IF Has(text_obj, "text") THEN Get(text_obj.text, "content", <<>>) ELSE <<>>

\* _convert_rich_text
convert_rich_text(rich_text) ==
    Join([i \in 1..Len(rich_text) |-> convert_rich_text_item(rich_text[i])])

\* _get_block_text
get_block_text(block, block_type) ==
    convert_rich_text(Get(Get(block, block_type, EmptyDict), "rich_text", <<>>))

\* _to_alpha: 1 -> a, 2 -> b, ... 27 -> aa
AlphaChars == <<"a", "b", "c", "d", "e", "f", "g", "h", "i", "j", "k", "l", "m",
                "n", "o", "p", "q", "r", "s", "t", "u", "v", "w", "x", "y", "z">>

RECURSIVE to_alpha(_)
to_alpha(num) ==
    IF num <= 0 THEN <<>>
    ELSE to_alpha((num - 1) \div 26) \o <<AlphaChars[((num - 1) % 26) + 1]>>

\* _to_roman followed by .lower()
RomanVals == <<1000, 900, 500, 400, 100, 90, 50, 40, 10, 9, 5, 4, 1>>

RomanSyms == <<<<"m">>, <<"c", "m">>, <<"d">>, <<"c", "d">>, <<"c">>, <<"x", "c">>,
               <<"l">>, <<"x", "l">>, <<"x">>, <<"i", "x">>, <<"v">>, <<"i", "v">>,
               <<"i">>>>

RECURSIVE to_roman_from(_, _)
to_roman_from(n, k) ==
    IF k > Len(RomanVals) THEN <<>>
    ELSE IF n >= RomanVals[k] THEN RomanSyms[k] \o to_roman_from(n - RomanVals[k], k)
    ELSE to_roman_from(n, k + 1)

to_roman_lower(num) == to_roman_from(num, 1)

\* _format_ordered_list_marker
format_ordered_list_marker(count, indent_level) ==
    CASE indent_level % 3 = 0 -> Str(count) \o <<".">>
      [] indent_level % 3 = 1 -> to_alpha(count) \o <<".">>
      [] OTHER -> to_roman_lower(count) \o <<".">>

-----------------------------------------------------------------------------
(* NotionPayloadToMarkdownConverter: blocks.  The instance state `st` is     *)
(* [counters |-> numbered_list_counters_by_indent,                           *)
(*  in_list  |-> in_numbered_list_by_indent]; every operator that can change *)
(* it returns [lines |-> the lines it produced, st |-> the state it leaves]. *)

NewConverterState == [counters |-> EmptyDict, in_list |-> EmptyDict]

Hashes(n) == [i \in 1..n |-> "#"]

\* _convert_heading_1 / _2 / _3 (n is the heading level)
convert_heading(block, block_type, n, indent) ==
    LET text == get_block_text(block, block_type)
    IN  IF text = <<>> THEN <<>>
        ELSE IF Get(Get(block, block_type, EmptyDict), "is_toggleable", FALSE)
        THEN <<indent \o Hashes(n) \o <<" ", "[", ">", "]", " ">> \o text>>
        ELSE <<indent \o Hashes(n) \o <<" ">> \o text>>

\* _convert_quote
convert_quote(block, indent) ==
    LET text == get_block_text(block, "quote")
        lines == Split(text, "\n")
    IN  IF text = <<>> THEN <<>>
        ELSE [i \in 1..Len(lines) |-> indent \o <<">", " ">> \o lines[i]]

\* _convert_code: the text of the spans goes through _convert_rich_text
convert_code(block, indent) ==
    LET code_data == Get(block, "code", EmptyDict)
        rich_text == Get(code_data, "rich_text", <<>>)
        lines == Split(convert_rich_text(rich_text), "\n")
    IN  IF rich_text = <<>> THEN <<>>
        ELSE <<indent \o <<Backtick, Backtick, Backtick>>
                      \o Get(code_data, "language", <<>>)>>
             \o [i \in 1..Len(lines) |-> indent \o lines[i]]
             \o <<indent \o <<Backtick, Backtick, Backtick>>>>

\* _convert_link_to_page
convert_link_to_page(block, indent) ==
    LET link_data == Get(block, "link_to_page", EmptyDict)
    IN  IF Get(link_data, "type", "None") = "page_id"
        THEN <<indent \o <<"<", "n", "o", "t", "i", "o", "n", "-", "p", "a", "g", "e",
                           " ", "i", "d", "=", "\"">>
                      \o Get(link_data, "page_id", <<>>)
                      \o <<"\"", ">", "<", "/", "n", "o", "t", "i", "o", "n", "-",
                           "p", "a", "g", "e", ">">>>>
        ELSE <<>>

\* _convert_numbered_list: an item with text takes the next count of its level
convert_numbered_list(block, indent, st) ==
    LET text == get_block_text(block, "numbered_list_item")
        indent_level == Len(indent) \div 4
        current_count == Get(st.counters, indent_level, 0) + 1
    IN  IF text = <<>> THEN [lines |-> <<>>, st |-> st]
        ELSE [lines |-> <<Spaces(3 * indent_level)
                          \o format_ordered_list_marker(current_count, indent_level)
                          \o <<" ">> \o text>>,
              st |-> [st EXCEPT !.counters = Put(@, indent_level, current_count)]]

\* n copies of the character c
Repeat(c, n) == [i \in 1..n |-> c]

\* max(a, b)
Max2(a, b) == IF a >= b THEN a ELSE b

\* row_text_matrix of _convert_table (source lines 354-366): the texts of the
\* cells of the rows whose type is table_row
row_text_matrix_of(rows) ==
    LET table_rows == SelectSeq(rows, LAMBDA row : Get(row, "type", "None") = "table_row")
    IN  [i \in 1..Len(table_rows) |->
            LET cells == Get(Get(table_rows[i], "table_row", EmptyDict), "cells", <<>>)
            IN  [c \in 1..Len(cells) |->
                    IF cells[c] # <<>> THEN convert_rich_text(cells[c]) ELSE <<>>]]

\* col_widths of _convert_table (source lines 379-402) for column c (1-based)
\* of a matrix whose rows hold at least one cell
table_col_width(matrix, has_header, c) ==
    IF has_header
    THEN IF c = 1
         THEN MaxOf({Len(matrix[i][1]) : i \in {j \in 1..Len(matrix) : matrix[j] # <<>>}}
                    \cup {0}) + 2
         ELSE IF c <= Len(matrix[1]) THEN Len(matrix[1][c]) ELSE 0
    ELSE MaxOf({Len(matrix[i][c]) : i \in {j \in 1..Len(matrix) : c <= Len(matrix[j])}}
               \cup {0})

\* One formatted cell (source lines 412-426): the first column left-aligned,
\* the others centred.
table_cell(text, width, c) ==
    IF c = 1 THEN text \o Spaces(Max2(0, width - Len(text)))
    ELSE LET total_pad == Max2(0, width - Len(text))
             left_pad == total_pad \div 2
         IN  Spaces(left_pad) \o text \o Spaces(total_pad - left_pad)

\* indent + "| " + " | ".join(cells) + " |"
table_line(cells, indent) ==
    indent \o <<"|", " ">>
           \o Join([c \in 1..Len(cells) |->
                       IF c = 1 THEN cells[c] ELSE <<" ", "|", " ">> \o cells[c]])
           \o <<" ", "|">>

\* The alignment separator (source lines 431-441).
table_separator(matrix, num_cols, indent) ==
    table_line([c \in 1..num_cols |->
                   IF c = 1
                   THEN Repeat("-", Max2(1, table_col_width(matrix, TRUE, 1)))
                   ELSE <<":">>
                        \o Repeat("-", Max2(1, Max2(3, table_col_width(matrix, TRUE, c) - 2)))
                        \o <<":">>],
               indent)

\* The lines of the table from its matrix of cell texts (source lines 368-443).
table_lines(matrix, has_header, indent) ==
    IF matrix = <<>> THEN <<>>
    ELSE LET num_cols == MaxOf({Len(matrix[i]) : i \in 1..Len(matrix)})
             row_line(i) ==
                 table_line([c \in 1..num_cols |->
                                table_cell(IF c <= Len(matrix[i]) THEN matrix[i][c]
                                           ELSE <<>>,
                                           table_col_width(matrix, has_header, c), c)],
                            indent)
         IN  <<row_line(1)>>
             \o (IF has_header THEN <<table_separator(matrix, num_cols, indent)>>
                 ELSE <<>>)
             \o [i \in 1..(Len(matrix) - 1) |-> row_line(i + 1)]

\* _convert_table: the rows are the children under the type key, else the
\* top-level ones
convert_table(block, indent) ==
    LET table_data == Get(block, "table", EmptyDict)
        rows == IF Get(table_data, "children", <<>>) # <<>> THEN table_data.children
                ELSE Get(block, "children", <<>>)
    IN  IF rows = <<>> THEN <<>>
        ELSE table_lines(row_text_matrix_of(rows),
                         Get(table_data, "has_column_header", FALSE), indent)

\* The block types _convert_block has a converter for.
ConverterTypes == {"paragraph", "heading_1", "heading_2", "heading_3",
                   "bulleted_list_item", "numbered_list_item", "to_do", "quote",
                   "divider", "code", "table", "toggle", "callout", "link_to_page",
                   "column_list"}

\* converter(block, indent) of _convert_block for the converters that leave
\* the instance state alone
convert_stateless(block, block_type, indent) ==
    CASE block_type = "paragraph" ->
           LET text == get_block_text(block, "paragraph")
           IN  IF text # <<>> THEN <<indent \o text>> ELSE << <<>> >>
      [] block_type = "heading_1" -> convert_heading(block, block_type, 1, indent)
      [] block_type = "heading_2" -> convert_heading(block, block_type, 2, indent)
      [] block_type = "heading_3" -> convert_heading(block, block_type, 3, indent)
      [] block_type = "bulleted_list_item" ->
           LET text == get_block_text(block, "bulleted_list_item")
           IN  IF text # <<>> THEN <<indent \o <<"-", " ">> \o text>> ELSE <<>>
      [] block_type = "to_do" ->
           LET text == get_block_text(block, "to_do")
               checked == Get(Get(block, "to_do", EmptyDict), "checked", FALSE)
           IN  IF text # <<>>
               THEN <<indent \o <<"-", " ", "[", IF checked THEN "x" ELSE " ", "]", " ">>
                             \o text>>
               ELSE <<>>
      [] block_type = "quote" -> convert_quote(block, indent)
      [] block_type = "divider" -> <<indent \o <<"-", "-", "-">>>>
      [] block_type = "code" -> convert_code(block, indent)
      [] block_type = "table" -> convert_table(block, indent)
      [] block_type = "toggle" ->
           LET text == get_block_text(block, "toggle")
           IN  IF text # <<>> THEN <<indent \o <<"-", " ", "[", ">", "]", " ">> \o text>>
               ELSE <<>>
      [] block_type = "callout" ->
           IF get_block_text(block, "callout") # <<>>
           THEN <<indent \o <<"<", "a", "s", "i", "d", "e", ">">>>>
           ELSE <<>>
      [] block_type = "link_to_page" -> convert_link_to_page(block, indent)
      [] block_type = "column_list" ->
           <<indent \o <<"<", "n", "o", "t", "i", "o", "n", "-", "c", "o", "l", "u", "m",
                         "n", "s", ">">>>>

\* The children _convert_block descends into: the top-level ones, else the
\* ones under the type key.
block_children(block, block_type) ==
    IF Has(block, "children") THEN block.children
    ELSE IF Has(block, block_type) /\ Has(block[block_type], "children")
    THEN block[block_type].children
    ELSE <<>>

\* a result with the lines of a later result behind it
Then(lines, r) == [lines |-> lines \o r.lines, st |-> r.st]

Trimmed(r) == [lines |-> TrimTrailingEmpty(r.lines), st |-> r.st]

\* source lines 73-81 of _process_blocks: the counter of the level is reset
\* when a numbered list ends here, or when one starts and none is open
reset_counters(st, prev_block_type, block_type, indent_level) ==
    IF prev_block_type = "numbered_list_item" /\ block_type # "numbered_list_item"
    THEN [counters |-> Put(st.counters, indent_level, 0),
          in_list  |-> Put(st.in_list, indent_level, FALSE)]
    ELSE IF block_type = "numbered_list_item" /\ ~Get(st.in_list, indent_level, FALSE)
    THEN [counters |-> Put(st.counters, indent_level, 0),
          in_list  |-> Put(st.in_list, indent_level, TRUE)]
    ELSE st

RECURSIVE process_blocks(_, _, _), process_blocks_from(_, _, _, _, _, _),
          convert_block(_, _, _), process_columns(_, _, _, _, _),
          process_column_done(_, _, _, _, _), process_blocks_next(_, _, _, _, _)

\* _convert_block, from the converter's result c on
convert_block_children(block, block_type, indent_level, c) ==
    IF block_children(block, block_type) # <<>>
    THEN Then(c.lines, process_blocks(block_children(block, block_type),
                                      indent_level + 1, c.st))
    ELSE c

convert_block(block, indent_level, st) ==
    LET block_type == Get(block, "type", "")
        indent == Spaces(4 * indent_level)
    IN  IF block_type \notin ConverterTypes THEN [lines |-> <<>>, st |-> st]
        ELSE convert_block_children(block, block_type, indent_level,
                 IF block_type = "numbered_list_item"
                 THEN convert_numbered_list(block, indent, st)
                 ELSE [lines |-> convert_stateless(block, block_type, indent),
                       st |-> st])

\* the loop over the columns of a column_list (source lines 92-98), from
\* column k on; `lines` are the lines so far
process_columns(columns, k, indent_level, lines, st) ==
    IF k > Len(columns) THEN [lines |-> lines, st |-> st]
    ELSE IF Get(columns[k], "type", "None") # "column"
    THEN process_columns(columns, k + 1, indent_level, lines, st)
    ELSE process_column_done(columns, k, indent_level, lines,
             process_blocks(Get(Get(columns[k], "column", EmptyDict), "children", <<>>),
                            indent_level, st))

\* r is what _process_blocks returned for the children of column k
process_column_done(columns, k, indent_level, lines, r) ==
    process_columns(columns, k + 1, indent_level,
        lines \o <<<<"<", "n", "o", "t", "i", "o", "n", "-", "c", "o", "l", "u", "m", "n",
                     ">">>>>
              \o r.lines
              \o <<<<"<", "/", "n", "o", "t", "i", "o", "n", "-", "c", "o", "l", "u", "m",
                     "n", ">">>>>,
        r.st)

ColumnsClosed(r) ==
    [lines |-> Append(r.lines, <<"<", "/", "n", "o", "t", "i", "o", "n", "-", "c", "o",
                                 "l", "u", "m", "n", "s", ">">>),
     st |-> r.st]

\* the column_list branch of _process_blocks (source lines 84-103); r is what
\* _convert_block returned for the column_list block
process_column_list(block, indent_level, r) ==
    ColumnsClosed(
        process_columns(Get(Get(block, "column_list", EmptyDict), "children", <<>>),
                        1, indent_level, r.lines, r.st))

AsideClosed(r) ==
    [lines |-> Append(r.lines, <<"<", "/", "a", "s", "i", "d", "e", ">">>), st |-> r.st]

\* the callout branch of _process_blocks (source lines 106-128): the children
\* are the top-level ones and are processed at the callout's own indent level
process_callout(block, indent_level, st) ==
    LET text == get_block_text(block, "callout")
        icon_data == Get(Get(block, "callout", EmptyDict), "icon", EmptyDict)
        icon == IF Get(icon_data, "type", "None") = "emoji"
                THEN Get(icon_data, "emoji", <<>>) ELSE <<>>
        head == <<<<"<", "a", "s", "i", "d", "e", ">">>>>
                \o (IF text # <<>> THEN <<icon \o <<" ">> \o text>> ELSE <<>>)
    IN  AsideClosed(
            IF Get(block, "children", <<>>) # <<>>
            THEN Then(head, process_blocks(block.children, indent_level, st))
            ELSE [lines |-> head, st |-> st])

\* one iteration of the loop of _process_blocks after the counter reset
process_one_block(block, block_type, indent_level, st) ==
    CASE block_type = "column_list" ->
           process_column_list(block, indent_level, convert_block(block, indent_level, st))
      [] block_type = "callout" -> process_callout(block, indent_level, st)
      [] OTHER -> convert_block(block, indent_level, st)

\* the loop of _process_blocks from block i on
process_blocks_from(blocks, i, indent_level, prev_block_type, lines, st) ==
    IF i > Len(blocks) THEN [lines |-> lines, st |-> st]
    ELSE process_blocks_next(blocks, i, indent_level, lines,
             process_one_block(blocks[i], Get(blocks[i], "type", ""), indent_level,
                 reset_counters(st, prev_block_type, Get(blocks[i], "type", ""),
                                indent_level)))

\* r is what iteration i produced
process_blocks_next(blocks, i, indent_level, lines, r) ==
    process_blocks_from(blocks, i + 1, indent_level, Get(blocks[i], "type", ""),
                        lines \o r.lines, r.st)

\* _process_blocks
process_blocks(blocks, indent_level, st) ==
    Trimmed(process_blocks_from(blocks, 1, indent_level, "None", <<>>, st))

\* The text of the page title (source lines 26-48) for the shapes of a title
\* property that is a dict; empty when there is none.
title_text_of(notion_data) ==
    LET properties == Get(notion_data, "properties", EmptyDict)
        \* the names of properties are texts
        title_property == Get(properties, <<"t", "i", "t", "l", "e">>, EmptyDict)
    IN  IF Get(title_property, "title", <<>>) # <<>>
        THEN IF Has(title_property.title[1], "text")
             THEN Get(title_property.title[1].text, "content", <<>>)
             ELSE convert_rich_text(title_property.title)
        ELSE IF Has(title_property, "text")
        THEN title_property.text.content
        ELSE <<>>

PageJoined(title_lines, r) ==
    [text |-> JoinWith(TrimTrailingEmpty(title_lines \o r.lines), "\n"), st |-> r.st]

\* NotionPayloadToMarkdownConverter.convert_page on an instance in state st:
\* text is the returned string, st the state the instance is left in
convert_page(notion_data, st) ==
    LET title_text == title_text_of(notion_data)
    IN  PageJoined(IF title_text # <<>>
                   THEN <<<<"#", " ">> \o title_text, <<>>>> ELSE <<>>,
                   IF Has(notion_data, "children")
                   THEN process_blocks(notion_data.children, 0, st)
                   ELSE [lines |-> <<>>, st |-> st])

\* payload_to_markdown: a new converter for every call
payload_to_markdown(payload_data) == convert_page(payload_data, NewConverterState).text

-----------------------------------------------------------------------------
(* Documents handed to a NotionPayloadToMarkdownConverter *)

\* A plain text span and a block of a Document.
TextSpan(content) == [type |-> "text", text |-> [content |-> content]]

DocBlock(type, data) == Put([type |-> type], type, data)

NumberedItem(content) ==
    DocBlock("numbered_list_item", [rich_text |-> <<TextSpan(content)>>])

Letters == <<"a", "b", "c", "d", "e">>

\* The top-level block of kind `kind` at position i.  Every numbered item of
\* a document has a text of its own: the letter of its position at the top
\* level, and x or y followed by the letter of its parent's position below.
KindBlock(kind, i) ==
    CASE kind = "numbered" -> NumberedItem(<<Letters[i]>>)
      [] kind = "paragraph" ->
           DocBlock("paragraph", [rich_text |-> <<TextSpan(<<"p">>)>>])
      [] kind = "callout" ->
           Put(DocBlock("callout",
                        [rich_text |-> <<TextSpan(<<"n">>)>>,
                         icon |-> [type |-> "emoji", emoji |-> <<Emoji>>]]),
               "children", <<NumberedItem(<<"x", Letters[i]>>)>>)
      [] kind = "column_list" ->
           DocBlock("column_list",
               [children |-> <<DocBlock("column",
                   [children |-> <<NumberedItem(<<"x", Letters[i]>>)>>])>>])
      [] kind = "bulleted" ->
           Put(DocBlock("bulleted_list_item", [rich_text |-> <<TextSpan(<<"q">>)>>]),
               "children", <<NumberedItem(<<"x", Letters[i]>>),
                             NumberedItem(<<"y", Letters[i]>>)>>)

BlockKinds == {"numbered", "paragraph", "callout", "column_list", "bulleted"}

Document(children) ==
    [parent |-> [page_id |-> "placeholder"], properties |-> EmptyDict,
     children |-> children]

\* The documents of at most n top-level blocks.
Documents(n) ==
    {Document([i \in 1..Len(kinds) |-> KindBlock(kinds[i], i)]) :
        kinds \in SeqsOf(BlockKinds, 0, n)}

-----------------------------------------------------------------------------
(* One NotionPayloadToMarkdownConverter instance, used for several calls *)

InitSerialize ==
    /\ requests = Unused
    /\ remote = Unused
    /\ frames = Unused
    /\ pc = "converter"
    /\ numbered_list_counters_by_indent = EmptyDict
    /\ in_numbered_list_by_indent = EmptyDict
    /\ outputs = <<>>
    /\ inputs = <<>>
    /\ api_response = Unused
    /\ payload = Unused
    /\ payload2 = Unused
    /\ markdown = Unused
    /\ markdown2 = Unused

\* converter.convert_page(d) on the instance, in the state earlier calls left
ConvertPage ==
    /\ pc = "converter"
    /\ Len(outputs) < MaxCalls
    /\ \E d \in Documents(IF outputs = <<>> THEN MaxBlocks ELSE MaxReuseBlocks) :
         LET r == convert_page(d, [counters |-> numbered_list_counters_by_indent,
                                   in_list  |-> in_numbered_list_by_indent])
         IN  /\ outputs' = Append(outputs, r.text)
             /\ inputs' = Append(inputs, d)
             /\ numbered_list_counters_by_indent' = r.st.counters
             /\ in_numbered_list_by_indent' = r.st.in_list
    /\ UNCHANGED <<pc, api_response, payload, payload2, markdown, markdown2>>
    /\ UNCHANGED upload_vars

NextSerialize == ConvertPage

SpecSerialize == InitSerialize /\ [][NextSerialize]_vars

-----------------------------------------------------------------------------
(* Properties of the serializer's numbering *)

\* C9: the output of each call on one converter instance equals the output of
\* a newly created instance on the same document.
C9_CallsStartFresh ==
    pc = "converter" =>
        \A i \in 1..Len(outputs) : outputs[i] = payload_to_markdown(inputs[i])

\* The line a numbered item is due at nesting level `level` as the ordinal-th
\* item of its run.
NumberedLine(block, level, ordinal) ==
    Spaces(3 * level) \o format_ordered_list_marker(ordinal, level) \o <<" ">>
        \o get_block_text(block, "numbered_list_item")

\* The ordinal of the numbered item blocks[i] within its sibling sequence: one
\* more than the number of numbered items directly before it.
RECURSIVE OrdinalAt(_, _)
OrdinalAt(blocks, i) ==
    IF i > 1 /\ blocks[i - 1].type = "numbered_list_item"
    THEN OrdinalAt(blocks, i - 1) + 1 ELSE 1

\* The lines due to the numbered items of a sibling sequence and of the
\* sibling sequences below it.  The children of a callout and of a column
\* are emitted at the level of the callout and of the column_list.
RECURSIVE NumberedLinesDue(_, _)
NumberedLinesDue(blocks, level) ==
    UNION {
        LET b == blocks[i]
        IN  CASE b.type = "numbered_list_item" ->
                   {NumberedLine(b, level, OrdinalAt(blocks, i))}
                   \cup NumberedLinesDue(block_children(b, b.type), level + 1)
              [] b.type = "callout" ->
                   NumberedLinesDue(Get(b, "children", <<>>), level)
              [] b.type = "column_list" ->
                   UNION {NumberedLinesDue(b.column_list.children[k].column.children,
                                           level) :
                             k \in 1..Len(b.column_list.children)}
              [] OTHER -> NumberedLinesDue(block_children(b, b.type), level + 1)
        : i \in 1..Len(blocks)}

LinesOf(text) == {Split(text, "\n")[k] : k \in 1..Len(Split(text, "\n"))}

\* C10: in the output of a new converter every numbered item of every sibling
\* sequence carries the ordinal of its place in its run of consecutive
\* numbered items: 1, 2, 3, ... and 1 again after any other sibling.
C10_NumberingRestarts ==
    (pc = "converter" /\ Len(outputs) >= 1) =>
        NumberedLinesDue(inputs[1].children, 0) \subseteq LinesOf(outputs[1])

-----------------------------------------------------------------------------
(* NotionMarkdownToPayloadConverter: inline formatting *)

PlainAnnotations == [bold |-> FALSE, italic |-> FALSE, strikethrough |-> FALSE,
                     underline |-> FALSE, code |-> FALSE, color |-> "default"]

\* _create_plain_text
create_plain_text(content) ==
    [type |-> "text", text |-> [content |-> content], annotations |-> PlainAnnotations]

\* _create_formatted_text
create_formatted_text(content, format_type) ==
    [type |-> "text", text |-> [content |-> content],
     annotations |-> [bold |-> format_type \in {"bold", "bold_italic"},
                      italic |-> format_type \in {"italic", "bold_italic"},
                      strikethrough |-> format_type = "strikethrough",
                      underline |-> format_type = "underline",
                      code |-> format_type = "code",
                      color |-> "default"]]

\* _create_link_text
create_link_text(content, url) ==
    [type |-> "text", text |-> [content |-> content, link |-> [url |-> url]],
     annotations |-> PlainAnnotations]

\* _create_equation_text
create_equation_text(expression) ==
    [type |-> "equation", equation |-> [expression |-> expression],
     annotations |-> PlainAnnotations]

\* _create_user_mention_text
create_user_mention_text(user_id, user_name) ==
    [type |-> "mention",
     mention |-> [type |-> "user",
                  user |-> Put([id |-> user_id], "_name", user_name)],
     annotations |-> PlainAnnotations]

\* _create_page_mention_text
create_page_mention_text(page_id) ==
    [type |-> "mention", mention |-> [type |-> "page", page |-> [id |-> page_id]],
     annotations |-> PlainAnnotations]

\* _create_date_mention_text
create_date_mention_text(date_text) ==
    [type |-> "mention",
     mention |-> [type |-> "date",
                  date |-> [start |-> parse_date_to_iso(date_text),
                            end |-> "None", time_zone |-> "None"]],
     annotations |-> PlainAnnotations]

\* The patterns of _parse_inline_formatting, in the order of the source.
InlinePatterns == <<
    [type |-> "equation",
     pattern |-> <<Lit(<<"$">>), RunNot("$"), Lit(<<"$">>)>>],
    [type |-> "user_mention",
     pattern |-> <<Lit(<<"<", "n", "o", "t", "i", "o", "n", "-", "u", "s", "e", "r">>),
                   Blank, Lit(<<"i", "d", "=", "\"">>), RunNot("\""),
                   Lit(<<"\"", ">", "@">>), RunNot("<"),
                   Lit(<<"<", "/", "n", "o", "t", "i", "o", "n", "-", "u", "s", "e",
                         "r", ">">>)>>],
    [type |-> "page_mention",
     pattern |-> <<Lit(<<"<", "n", "o", "t", "i", "o", "n", "-", "p", "a", "g", "e">>),
                   Blank, Lit(<<"i", "d", "=", "\"">>), RunNot("\""),
                   Lit(<<"\"", ">", "<", "/", "n", "o", "t", "i", "o", "n", "-", "p",
                         "a", "g", "e", ">">>)>>],
    [type |-> "date_mention",
     pattern |-> <<Lit(<<"<", "n", "o", "t", "i", "o", "n", "-", "d", "a", "t", "e",
                         ">">>),
                   RunNot("<"),
                   Lit(<<"<", "/", "n", "o", "t", "i", "o", "n", "-", "d", "a", "t",
                         "e", ">">>)>>],
    [type |-> "link",
     pattern |-> <<Lit(<<"[">>), RunNot("]"), Lit(<<"]", "(">>), RunNot(")"),
                   Lit(<<")">>)>>],
    [type |-> "code",
     pattern |-> <<Lit(<<Backtick>>), RunNot(Backtick), Lit(<<Backtick>>)>>],
    [type |-> "bold_italic",
     pattern |-> <<Lit(<<"*", "*", "*">>), RunNot("*"), Lit(<<"*", "*", "*">>)>>],
    [type |-> "bold",
     pattern |-> <<Lit(<<"*", "*">>), RunNot("*"), Lit(<<"*", "*">>)>>],
    [type |-> "italic",
     pattern |-> <<Lit(<<"*">>), RunNot("*"), Lit(<<"*">>)>>],
    [type |-> "strikethrough",
     pattern |-> <<Lit(<<"~", "~">>), RunNot("~"), Lit(<<"~", "~">>)>>],
    [type |-> "underline",
     pattern |-> <<Lit(<<"<", "u", ">">>), RunNot("<"), Lit(<<"<", "/", "u", ">">>)>>] >>

\* The span a match of a pattern of the given type makes of its groups.
matched_span(pattern_type, groups) ==
    CASE pattern_type = "link" -> create_link_text(groups[1], groups[2])
      [] pattern_type = "equation" -> create_equation_text(groups[1])
      [] pattern_type = "user_mention" -> create_user_mention_text(groups[1], groups[2])
      [] pattern_type = "page_mention" -> create_page_mention_text(groups[1])
      [] pattern_type = "date_mention" -> create_date_mention_text(groups[1])
      [] OTHER -> create_formatted_text(groups[1], pattern_type)

RECURSIVE inline_loop(_), inline_matched(_, _, _, _)

\* A choice that would take the first pattern of the list that matches
\* anywhere, however late its match starts.
inline_first_declared(remaining_text, found) ==
    LET hits == {p \in 1..Len(InlinePatterns) : found[p] > 0}
    IN  IF hits = {} THEN <<create_plain_text(remaining_text)>>
        ELSE inline_matched(remaining_text, found[MinOf(hits)],
                 InlinePatterns[MinOf(hits)].type,
                 MatchFrom(InlinePatterns[MinOf(hits)].pattern, 1, remaining_text,
                           found[MinOf(hits)], <<>>))

\* found[p] is where pattern p first matches remaining_text (0: nowhere); the
\* earliest match wins, and among patterns that start together the first
\* of the list
inline_earliest(remaining_text, found) ==
    LET hits == {p \in 1..Len(InlinePatterns) : found[p] > 0}
        best == CHOOSE p \in hits :
                    \A q \in hits : found[p] < found[q] \/ (found[p] = found[q] /\ p <= q)
    IN  IF hits = {} THEN <<create_plain_text(remaining_text)>>
        ELSE inline_matched(remaining_text, found[best], InlinePatterns[best].type,
                 MatchFrom(InlinePatterns[best].pattern, 1, remaining_text,
                           found[best], <<>>))

\* m is the earliest match; it starts at position start
inline_matched(remaining_text, start, pattern_type, m) ==
    (IF start > 1 THEN <<create_plain_text(SubSeq(remaining_text, 1, start - 1))>>
     ELSE <<>>)
    \o <<matched_span(pattern_type, m.groups)>>
    \o inline_loop(From(remaining_text, m.end))

\* the loop of _parse_inline_formatting (while remaining_text)
inline_loop(remaining_text) ==
    IF remaining_text = <<>> THEN <<>>
    ELSE inline_earliest(remaining_text,
             [p \in 1..Len(InlinePatterns) |->
                 SearchStart(InlinePatterns[p].pattern, remaining_text)])

\* _parse_inline_formatting
parse_inline_formatting(text) == inline_loop(text)

-----------------------------------------------------------------------------
(* NotionMarkdownToPayloadConverter: lines and blocks.  self.lines is        *)
(* `lines`, self.current_line_index is `idx` (counted from 0 as in the       *)
(* source, so that line idx is lines[idx + 1]).  An operator that parses     *)
(* returns [blocks |-> the blocks it made, idx |-> the index it leaves,      *)
(* raised |-> whether an exception left the converter].                      *)

AsideOpen == <<"<", "a", "s", "i", "d", "e", ">">>

AsideClose == <<"<", "/", "a", "s", "i", "d", "e", ">">>

ColumnsOpen == <<"<", "n", "o", "t", "i", "o", "n", "-", "c", "o", "l", "u", "m", "n", "s", ">">>

ColumnsClose == <<"<", "/", "n", "o", "t", "i", "o", "n", "-", "c", "o", "l", "u", "m", "n", "s", ">">>

ColumnOpen == <<"<", "n", "o", "t", "i", "o", "n", "-", "c", "o", "l", "u", "m", "n", ">">>

ColumnClose == <<"<", "/", "n", "o", "t", "i", "o", "n", "-", "c", "o", "l", "u", "m", "n", ">">>

PageTag == <<"<", "n", "o", "t", "i", "o", "n", "-", "p", "a", "g", "e">>

Fence == <<Backtick, Backtick, Backtick>>

Dashes == <<"-", "-", "-">>

\* The position behind a match of (\d+|[a-zA-Z]|(?i:[ivxlcdm]+))\.\s+ at
\* position pos of text, 0 without a match: the three ordered-list markers
\* of _parse_block and _get_indent_level.
OrderedMarkerEnd(text, pos) ==
    LET after(n) == IF /\ n >= 1
                       /\ StartsAt(text, pos + n, <<".">>)
                       /\ RunIn(text, pos + n + 1, Whitespace) >= 1
                    THEN pos + n + 1 + RunIn(text, pos + n + 1, Whitespace)
                    ELSE 0
        digits == after(RunIn(text, pos, DigitSet))
        letter == after(IF pos <= Len(text) /\ text[pos] \in LetterSet THEN 1 ELSE 0)
        roman  == after(RunIn(text, pos, RomanSet))
    IN  IF digits > 0 THEN digits ELSE IF letter > 0 THEN letter ELSE roman

\* The position behind a match of ^-\s+\[c\]\s+ for a c of `marks`, 0 without
\* one: the to-do (marks " " and "x") and toggle (mark ">") patterns.
CheckboxEnd(line, marks) ==
    LET gap == RunIn(line, 2, Whitespace)
        box == 2 + gap
    IN  IF /\ StartsWith(line, <<"-">>)
           /\ gap >= 1
           /\ StartsAt(line, box, <<"[">>)
           /\ box + 1 <= Len(line) /\ line[box + 1] \in marks
           /\ StartsAt(line, box + 2, <<"]">>)
           /\ RunIn(line, box + 3, Whitespace) >= 1
        THEN box + 3 + RunIn(line, box + 3, Whitespace)
        ELSE 0

\* _get_indent_level: leading whitespace // 3 for an ordered-list line, // 2
\* for any other
get_indent_level(line) ==
    LET spaces == RunIn(line, 1, Whitespace)
    IN  IF OrderedMarkerEnd(line, spaces + 1) > 0
        THEN spaces \div 3 ELSE spaces \div 2

\* _create_heading_block
create_heading_block(text, level, is_toggle) ==
    LET heading_type == IF level = 1 THEN "heading_1"
                        ELSE IF level = 2 THEN "heading_2" ELSE "heading_3"
    IN  Put([object |-> "block", type |-> heading_type], heading_type,
            [rich_text |-> parse_inline_formatting(text),
             is_toggleable |-> is_toggle, color |-> "default"])

\* _create_paragraph_block
create_paragraph_block(text) ==
    [object |-> "block", type |-> "paragraph",
     paragraph |-> [rich_text |-> parse_inline_formatting(text), color |-> "default"]]

\* _create_divider_block
create_divider_block ==
    [object |-> "block", type |-> "divider", divider |-> EmptyDict]

\* The block a list-item creator starts from: _create_bulleted_list_block and
\* _create_numbered_list_block before the nested items
create_list_item(block_type, text) ==
    Put([object |-> "block", type |-> block_type], block_type,
        [rich_text |-> parse_inline_formatting(text), color |-> "default"])

\* _create_todo_block before the nested items
create_todo(text, checked) ==
    [object |-> "block", type |-> "to_do",
     to_do |-> [rich_text |-> parse_inline_formatting(text), checked |-> checked,
                color |-> "default"]]

\* _create_toggle_block before the nested items
create_toggle(text) ==
    [object |-> "block", type |-> "toggle",
     toggle |-> [rich_text |-> parse_inline_formatting(text), color |-> "default"],
     children |-> <<>>]

\* The number of lines behind line idx, one after the other, whose stripped
\* text starts with "> " (the look-ahead of _create_quote_block).
QuoteRun(lines, idx) ==
    LET stops == {j \in (idx + 1)..(Len(lines) - 1) :
                     ~StartsWith(Strip(lines[j + 1]), <<">", " ">>)}
    IN  (IF stops = {} THEN Len(lines) ELSE MinOf(stops)) - (idx + 1)

\* _create_quote_block: the lines of the run are joined with "\n" and the
\* index moves to the last of them
create_quote_block(lines, idx, text) ==
    [blocks |-> <<[object |-> "block", type |-> "quote",
                   quote |-> [rich_text |->
                                 parse_inline_formatting(
                                     JoinWith(<<text>> \o
                                              [k \in 1..QuoteRun(lines, idx) |->
                                                  From(Strip(lines[idx + k + 1]), 3)],
                                              "\n")),
                              color |-> "default"]]>>,
     idx |-> idx + QuoteRun(lines, idx),
     raised |-> FALSE]

\* The index of the first line behind line idx whose stripped text starts
\* with the fence, len(lines) when there is none.
FenceClose(lines, idx) ==
    LET closes == {j \in (idx + 1)..(Len(lines) - 1) : StartsWith(Strip(lines[j + 1]), Fence)}
    IN  IF closes = {} THEN Len(lines) ELSE MinOf(closes)

\* _parse_code_block
parse_code_block(lines, idx, line) ==
    LET language == IF Len(line) > 3 THEN Strip(From(line, 4)) ELSE <<>>
        close == FenceClose(lines, idx)
    IN  [blocks |-> <<[object |-> "block", type |-> "code",
                       code |-> [rich_text |->
                                    <<[type |-> "text",
                                       text |-> [content |->
                                          JoinWith([k \in 1..(close - idx - 1) |->
                                                       lines[idx + k + 1]], "\n")]]>>,
                                 language |-> IF language # <<>> THEN language
                                              ELSE <<"p", "l", "a", "i", "n", " ", "t",
                                                     "e", "x", "t">>]]>>,
         idx |-> close,
         raised |-> FALSE]

\* _parse_link_to_page_block: re.search(r'<notion-page\s+id="([^"]+)"', line)
parse_link_to_page_block(idx, line) ==
    LET pattern == <<Lit(PageTag), Blank, Lit(<<"i", "d", "=", "\"">>), RunNot("\""),
                     Lit(<<"\"">>)>>
        start == SearchStart(pattern, line)
    IN  [blocks |-> IF start = 0 THEN <<>>
                    ELSE <<[object |-> "block", type |-> "link_to_page",
                            link_to_page |->
                                [type |-> "page_id",
                                 page_id |-> MatchFrom(pattern, 1, line, start,
                                                       <<>>).groups[1]]]>>,
         idx |-> idx,
         raised |-> FALSE]

\* ord(c) > 127: the emoji is the one character of this model above 127
NonAscii(c) == c = Emoji

\* the loop of _parse_callout_block from line k on (source lines 866-884):
\* content is callout_content, icon the icon so far
RECURSIVE callout_scan(_, _, _, _)
callout_scan(lines, k, content, icon) ==
    IF k >= Len(lines) \/ Strip(lines[k + 1]) = AsideClose
    THEN [content |-> content, icon |-> icon, idx |-> k]
    ELSE IF Strip(lines[k + 1]) = <<>>
    THEN callout_scan(lines, k + 1, Append(content, <<>>), icon)
    ELSE IF content = <<>> /\ NonAscii(Strip(lines[k + 1])[1])
    THEN callout_scan(lines, k + 1,
             IF Strip(From(Strip(lines[k + 1]), 2)) # <<>>
             THEN <<Strip(From(Strip(lines[k + 1]), 2))>> ELSE <<>>,
             <<Strip(lines[k + 1])[1]>>)
    ELSE callout_scan(lines, k + 1, Append(content, Strip(lines[k + 1])), icon)

\* the callout block made of what the loop collected (source lines 886-919)
callout_block(c) ==
    [blocks |->
        <<[object |-> "block", type |-> "callout",
           callout |-> [rich_text |-> IF c.content # <<>> /\ c.content[1] # <<>>
                                      THEN parse_inline_formatting(c.content[1])
                                      ELSE <<>>,
                        icon |-> [type |-> "emoji", emoji |-> c.icon],
                        color |-> "gray_background"],
           children |->
               LET rest == SelectSeq(IF c.content = <<>> THEN <<>> ELSE Tail(c.content),
                                     LAMBDA content_line : content_line # <<>>)
               IN  [i \in 1..Len(rest) |->
                       [object |-> "block", type |-> "paragraph",
                        paragraph |-> [rich_text |-> parse_inline_formatting(rest[i]),
                                       color |-> "default"]]]]>>,
     idx |-> c.idx,
     raised |-> FALSE]

\* _parse_callout_block: the default icon is the light bulb emoji
parse_callout_block(lines, idx) ==
    callout_block(callout_scan(lines, idx + 1, <<>>, <<Emoji>>))

RECURSIVE convert_markdown(_), column_scan(_, _, _, _), parse_block(_, _, _, _),
          nested_from(_, _, _, _, _)

\* the column a closing </notion-column> makes of the page the column's own
\* converter returned (source lines 957-968)
column_closed(lines, k, columns, temp_result) ==
    IF temp_result.raised THEN [blocks |-> <<>>, idx |-> k, raised |-> TRUE]
    ELSE column_scan(lines, k + 1,
             Append(columns,
                    [object |-> "block", type |-> "column",
                     column |-> [width_ratio |-> "0.5",
                                 children |-> Get(temp_result.page, "children", <<>>)]]),
             <<>>)

\* the loop of _parse_column_list_block from line k on (source lines 945-972)
column_scan(lines, k, columns, current_column_content) ==
    IF k >= Len(lines) \/ Strip(lines[k + 1]) = ColumnsClose
    THEN [blocks |-> <<[object |-> "block", type |-> "column_list",
                        column_list |-> [children |-> columns]]>>,
          idx |-> k, raised |-> FALSE]
    ELSE IF Strip(lines[k + 1]) = ColumnOpen
    THEN column_scan(lines, k + 1, columns, <<>>)
    ELSE IF Strip(lines[k + 1]) = ColumnClose
    THEN (IF current_column_content # <<>>
          THEN column_closed(lines, k, columns,
                   convert_markdown(JoinWith(current_column_content, "\n")))
          ELSE column_scan(lines, k + 1, columns, <<>>))
    ELSE column_scan(lines, k + 1, columns,
                     Append(current_column_content, Strip(lines[k + 1])))

\* _parse_column_list_block
parse_column_list_block(lines, idx) == column_scan(lines, idx + 1, <<>>, <<>>)

\* block["children"] = children when there are any (toggle headings, toggles)
with_children(block, r) ==
    [blocks |-> IF r.raised THEN <<>>
                ELSE IF r.blocks # <<>> THEN <<Put(block, "children", r.blocks)>>
                ELSE <<block>>,
     idx |-> r.idx, raised |-> r.raised]

\* block[block_type]["children"] = children when there are any (list items)
with_nested_items(block, block_type, r) ==
    [blocks |-> IF r.raised THEN <<>>
                ELSE IF r.blocks # <<>>
                THEN <<Put(block, block_type, Put(block[block_type], "children", r.blocks))>>
                ELSE <<block>>,
     idx |-> r.idx, raised |-> r.raised]

\* r is what _parse_block returned for the nested line
nested_next(lines, parent_indent, children, r) ==
    IF r.raised THEN r
    ELSE nested_from(lines, r.idx, r.idx + 1, parent_indent, children \o r.blocks)

\* A loop that would take for children only the lines exactly one level
\* below the parent.
nested_from_next_level_only(lines, idx, temp_index, parent_indent, children) ==
    IF temp_index < Len(lines)
       /\ get_indent_level(lines[temp_index + 1]) = parent_indent + 1
    THEN nested_next(lines, parent_indent, children,
             parse_block(lines, temp_index, Strip(lines[temp_index + 1]),
                         get_indent_level(lines[temp_index + 1])))
    ELSE [blocks |-> children, idx |-> idx, raised |-> FALSE]

\* the loop of _parse_nested_list_items and of _parse_nested_blocks: every
\* following line of a greater indent is parsed as a child
nested_from(lines, idx, temp_index, parent_indent, children) ==
    IF temp_index < Len(lines) /\ get_indent_level(lines[temp_index + 1]) > parent_indent
    THEN nested_next(lines, parent_indent, children,
             parse_block(lines, temp_index, Strip(lines[temp_index + 1]),
                         get_indent_level(lines[temp_index + 1])))
    ELSE [blocks |-> children, idx |-> idx, raised |-> FALSE]

\* _parse_nested_list_items, _parse_nested_blocks
parse_nested_list_items(lines, idx, parent_indent) ==
    nested_from(lines, idx, idx + 1, parent_indent, <<>>)

One(block, idx) == [blocks |-> <<block>>, idx |-> idx, raised |-> FALSE]

\* re.match(r'^[|\s:\-]+$', line)
IsSeparatorRow(line) ==
    line # <<>> /\ \A i \in 1..Len(line) : line[i] \in Whitespace \cup {"|", ":", "-"}

\* _is_table_row for the stripped line at index idx: the next line is a
\* separator row, or the line before holds a "|"
is_table_row(lines, idx, line) ==
    /\ Contains(line, <<"|">>)
    /\ \/ /\ idx + 1 < Len(lines)
          /\ IsSeparatorRow(Strip(lines[idx + 2]))
          /\ Contains(Strip(lines[idx + 2]), <<"|">>)
       \/ /\ idx > 0
          /\ Contains(Strip(lines[idx]), <<"|">>)

\* The cells of a row line (source lines 215-220): the stripped pieces between
\* the "|", without an empty first and an empty last piece.
table_cells(line) ==
    LET pieces == Split(line, "|")
        cells == [i \in 1..Len(pieces) |-> Strip(pieces[i])]
        inner == IF cells # <<>> /\ cells[1] = <<>> THEN Tail(cells) ELSE cells
    IN  IF inner # <<>> /\ inner[Len(inner)] = <<>>
        THEN SubSeq(inner, 1, Len(inner) - 1) ELSE inner

\* The table_row block of a row line (source lines 222-233).
table_row_of(line) ==
    [object |-> "block", type |-> "table_row",
     table_row |-> [cells |-> [c \in 1..Len(table_cells(line)) |->
                                 parse_inline_formatting(table_cells(line)[c])]]]

\* What _parse_table would return, had its loop left the cursor one line
\* further back.
table_block_further_back(table_rows, has_header, idx) ==
    IF table_rows = <<>> THEN [blocks |-> <<>>, idx |-> idx - 1, raised |-> FALSE]
    ELSE [blocks |-> <<[object |-> "block", type |-> "table",
                        table |-> [table_width |-> Len(table_rows[1].table_row.cells),
                                   has_column_header |-> has_header,
                                   has_row_header |-> FALSE,
                                   children |-> table_rows]]>>,
          idx |-> idx - 1, raised |-> FALSE]

\* What _parse_table returns once its loop is over (source lines 237-252),
\* current_line_index being idx.
table_block(table_rows, has_header, idx) ==
    IF table_rows = <<>> THEN [blocks |-> <<>>, idx |-> idx, raised |-> FALSE]
    ELSE [blocks |-> <<[object |-> "block", type |-> "table",
                        table |-> [table_width |-> Len(table_rows[1].table_row.cells),
                                   has_column_header |-> has_header,
                                   has_row_header |-> FALSE,
                                   children |-> table_rows]]>>,
          idx |-> idx, raised |-> FALSE]

\* The loop of _parse_table from line idx on (source lines 201-235).
RECURSIVE parse_table_from(_, _, _, _)
parse_table_from(lines, idx, table_rows, has_header) ==
    IF idx >= Len(lines) THEN table_block(table_rows, has_header, idx)
    ELSE IF Strip(lines[idx + 1]) = <<>> \/ ~Contains(Strip(lines[idx + 1]), <<"|">>)
    THEN table_block(table_rows, has_header, idx - 1)
    ELSE IF IsSeparatorRow(Strip(lines[idx + 1]))
    THEN parse_table_from(lines, idx + 1, table_rows, TRUE)
    ELSE parse_table_from(lines, idx + 1,
                          Append(table_rows, table_row_of(Strip(lines[idx + 1]))),
                          has_header)

\* _parse_table
parse_table(lines, idx) == parse_table_from(lines, idx, <<>>, FALSE)

\* _parse_block for the stripped line `line` at index idx.
parse_block(lines, idx, line, indent) ==
    IF line = <<>> THEN One(create_paragraph_block(<<>>), idx)
    ELSE IF StartsWith(line, <<"#", "#", "#", " ", "[", ">", "]", " ">>)
    THEN with_children(create_heading_block(From(line, 9), 3, TRUE),
                       parse_nested_list_items(lines, idx, indent))
    ELSE IF StartsWith(line, <<"#", "#", "#", " ">>)
    THEN One(create_heading_block(From(line, 5), 3, FALSE), idx)
    ELSE IF StartsWith(line, <<"#", "#", " ", "[", ">", "]", " ">>)
    THEN with_children(create_heading_block(From(line, 8), 2, TRUE),
                       parse_nested_list_items(lines, idx, indent))
    ELSE IF StartsWith(line, <<"#", "#", " ">>)
    THEN One(create_heading_block(From(line, 4), 2, FALSE), idx)
    ELSE IF StartsWith(line, <<"#", " ", "[", ">", "]", " ">>)
    THEN with_children(create_heading_block(From(line, 7), 1, TRUE),
                       parse_nested_list_items(lines, idx, indent))
    ELSE IF StartsWith(line, <<"#", " ">>)
    THEN One(create_heading_block(From(line, 3), 1, FALSE), idx)
    ELSE IF line \in {Dashes, <<"*", "*", "*">>, <<"_", "_", "_">>}
    THEN One(create_divider_block, idx)
    ELSE IF StartsWith(line, <<">", " ">>)
    THEN create_quote_block(lines, idx, From(line, 3))
    ELSE IF StartsWith(line, Fence) THEN parse_code_block(lines, idx, line)
    ELSE IF StartsWith(line, AsideOpen) THEN parse_callout_block(lines, idx)
    ELSE IF StartsWith(line, PageTag) THEN parse_link_to_page_block(idx, line)
    ELSE IF StartsWith(line, ColumnsOpen) THEN parse_column_list_block(lines, idx)
    ELSE IF CheckboxEnd(line, {" ", "x"}) > 0
    THEN with_nested_items(create_todo(From(line, CheckboxEnd(line, {" ", "x"})),
                                       Contains(line, <<"[", "x", "]">>)),
                           "to_do", parse_nested_list_items(lines, idx, indent))
    ELSE IF CheckboxEnd(line, {">"}) > 0
    THEN with_children(create_toggle(From(line, CheckboxEnd(line, {">"}))),
                       parse_nested_list_items(lines, idx, indent))
    ELSE IF StartsWith(line, <<"-", " ">>)
    THEN with_nested_items(create_list_item("bulleted_list_item", From(line, 3)),
                           "bulleted_list_item",
                           parse_nested_list_items(lines, idx, indent))
    ELSE IF OrderedMarkerEnd(line, 1) > 0
    THEN with_nested_items(create_list_item("numbered_list_item",
                                            From(line, OrderedMarkerEnd(line, 1))),
                           "numbered_list_item",
                           parse_nested_list_items(lines, idx, indent))
    ELSE IF is_table_row(lines, idx, line) THEN parse_table(lines, idx)
    ELSE One(create_paragraph_block(line), idx)

\* r is what _parse_block returned for line idx
RECURSIVE parse_blocks_from(_, _, _, _)
parse_blocks_next(lines, parent_indent, blocks, r) ==
    IF r.raised THEN r
    ELSE parse_blocks_from(lines, r.idx + 1, parent_indent, blocks \o r.blocks)

\* the loop of _parse_blocks from line idx on
parse_blocks_from(lines, idx, parent_indent, blocks) ==
    IF idx >= Len(lines)
       \/ (parent_indent > 0 /\ get_indent_level(lines[idx + 1]) < parent_indent)
    THEN [blocks |-> blocks, idx |-> idx, raised |-> FALSE]
    ELSE IF get_indent_level(lines[idx + 1]) > parent_indent
    THEN parse_blocks_from(lines, idx + 1, parent_indent, blocks)
    ELSE parse_blocks_next(lines, parent_indent, blocks,
             parse_block(lines, idx, Strip(lines[idx + 1]),
                         get_indent_level(lines[idx + 1])))

\* _parse_blocks
parse_blocks(lines, idx, parent_indent) == parse_blocks_from(lines, idx, parent_indent, <<>>)

-----------------------------------------------------------------------------
(* NotionMarkdownToPayloadConverter: front matter.  A Python value is         *)
(*   [kind |-> "none"], [kind |-> "bool", v |-> b], [kind |-> "int", v |-> n], *)
(*   [kind |-> "float", v |-> its repr], [kind |-> "str", v |-> text],        *)
(*   [kind |-> "list", v |-> values],                                         *)
(*   [kind |-> "dict", v |-> <<[k |-> key, v |-> value], ...>>] in insertion  *)
(*   order.                                                                   *)

PyNone == [kind |-> "none"]

PyBool(b) == [kind |-> "bool", v |-> b]

PyInt(n) == [kind |-> "int", v |-> n]

PyFloat(repr) == [kind |-> "float", v |-> repr]

PyStr(text) == [kind |-> "str", v |-> text]

PyList(values) == [kind |-> "list", v |-> values]

PyDict(items) == [kind |-> "dict", v |-> items]

UpperChars == <<"A", "B", "C", "D", "E", "F", "G", "H", "I", "J", "K", "L", "M",
                "N", "O", "P", "Q", "R", "S", "T", "U", "V", "W", "X", "Y", "Z">>

\* str.lower()
Lower(text) ==
    [i \in 1..Len(text) |->
        IF \E k \in 1..26 : UpperChars[k] = text[i]
        THEN AlphaChars[CHOOSE k \in 1..26 : UpperChars[k] = text[i]]
        ELSE text[i]]

\* strip_quotes of _parse_front_matter_properties
strip_quotes(text) ==
    LET s == Strip(text)
    IN  IF /\ Len(s) >= 2
           /\ \/ (s[1] = "\"" /\ s[Len(s)] = "\"")
              \/ (s[1] = "'" /\ s[Len(s)] = "'")
        THEN SubSeq(s, 2, Len(s) - 1)
        ELSE s

\* The text without a leading sign.
Unsigned(v) == IF v # <<>> /\ v[1] \in {"+", "-"} THEN Tail(v) ELSE v

\* int(v) succeeds: an optional sign and decimal digits (the numerals of
\* this model are written without "_")
IsIntLiteral(v) == AllDigits(Unsigned(v))

\* float(v) succeeds for a v with ".": an optional sign and decimal digits
\* around one ".", at least one digit (the numerals of this model have no
\* exponent)
IsFloatLiteral(v) ==
    LET u == Unsigned(v)
        dot == RunNotIn(u, 1, {"."}) + 1
    IN  /\ dot <= Len(u)
        /\ \A i \in 1..Len(u) : i # dot => u[i] \in DigitSet
        /\ Len(u) >= 2

\* digits without leading zeros, "0" for none left
NoLeadingZeros(digits) ==
    LET keep == {i \in 1..Len(digits) : digits[i] # "0"}
    IN  IF keep = {} THEN <<"0">> ELSE From(digits, MinOf(keep))

\* digits without trailing zeros, "0" for none left
NoTrailingZeros(digits) ==
    LET keep == {i \in 1..Len(digits) : digits[i] # "0"}
    IN  IF keep = {} THEN <<"0">> ELSE SubSeq(digits, 1, MaxOf(keep))

\* repr(float(v)) for the numerals IsFloatLiteral accepts (short ones, which
\* repr writes without an exponent)
FloatRepr(v) ==
    LET u == Unsigned(v)
        dot == RunNotIn(u, 1, {"."}) + 1
    IN  (IF v[1] = "-" THEN <<"-">> ELSE <<>>)
        \o NoLeadingZeros(SubSeq(u, 1, dot - 1)) \o <<".">>
        \o NoTrailingZeros(From(u, dot + 1))

\* parse_scalar of _parse_front_matter_properties
parse_scalar(val) ==
    LET v == Strip(val)
    IN  IF Lower(v) = <<"n", "u", "l", "l">> THEN PyNone
        ELSE IF Lower(v) = <<"t", "r", "u", "e">> THEN PyBool(TRUE)
        ELSE IF Lower(v) = <<"f", "a", "l", "s", "e">> THEN PyBool(FALSE)
        ELSE IF Contains(v, <<".">>) /\ IsFloatLiteral(v) THEN PyFloat(FloatRepr(v))
        ELSE IF ~Contains(v, <<".">>) /\ IsIntLiteral(v)
        THEN PyInt(IF v[1] = "-" THEN 0 - IntOf(Unsigned(v)) ELSE IntOf(Unsigned(v)))
        ELSE PyStr(strip_quotes(v))

\* str(n) for an int
StrInt(n) == IF n < 0 THEN <<"-">> \o Str(0 - n) ELSE Str(n)

\* repr(value) of a scalar inside a list or dict (the strings of this model
\* hold no quote and no backslash)
ScalarRepr(value) ==
    CASE value.kind = "none" -> <<"N", "o", "n", "e">>
      [] value.kind = "bool" -> IF value.v THEN <<"T", "r", "u", "e">>
                                ELSE <<"F", "a", "l", "s", "e">>
      [] value.kind = "int" -> StrInt(value.v)
      [] value.kind = "float" -> value.v
      [] value.kind = "str" -> <<"'">> \o value.v \o <<"'">>

\* ", ".join(parts)
RECURSIVE CommaJoin(_)
CommaJoin(parts) ==
    IF parts = <<>> THEN <<>>
    ELSE IF Len(parts) = 1 THEN parts[1]
    ELSE parts[1] \o <<",", " ">> \o CommaJoin(Tail(parts))

\* str(value)
py_str(value) ==
    CASE value.kind = "str" -> value.v
      [] value.kind = "list" ->
           <<"[">> \o CommaJoin([i \in 1..Len(value.v) |-> ScalarRepr(value.v[i])])
                   \o <<"]">>
      [] value.kind = "dict" ->
           <<"{">> \o CommaJoin([i \in 1..Len(value.v) |->
                                    <<"'">> \o value.v[i].k \o <<"'", ":", " ">>
                                    \o ScalarRepr(value.v[i].v)])
                   \o <<"}">>
      [] OTHER -> ScalarRepr(value)

\* bool(value)
py_bool(value) ==
    CASE value.kind = "none" -> FALSE
      [] value.kind = "bool" -> value.v
      [] value.kind = "int" -> value.v # 0
      [] value.kind = "float" -> value.v \notin {<<"0", ".", "0">>, <<"-", "0", ".", "0">>}
      [] OTHER -> value.v # <<>>

\* What `for v in value` yields: the items of a list, the characters of a
\* str, the keys of a dict; ok is FALSE where it raises TypeError (None, a
\* bool, an int, a float).
py_iter(value) ==
    CASE value.kind = "list" -> [ok |-> TRUE, items |-> value.v]
      [] value.kind = "str" ->
           [ok |-> TRUE, items |-> [i \in 1..Len(value.v) |-> PyStr(<<value.v[i]>>)]]
      [] value.kind = "dict" ->
           [ok |-> TRUE, items |-> [i \in 1..Len(value.v) |-> PyStr(value.v[i].k)]]
      [] OTHER -> [ok |-> FALSE, items |-> <<>>]

\* d.get(key) of a dict value: None for a missing key
py_get(items, key) ==
    IF \E i \in 1..Len(items) : items[i].k = key
    THEN items[CHOOSE i \in 1..Len(items) : items[i].k = key].v
    ELSE PyNone

\* d[key] = value of a dict value: a key already there keeps its place
py_set(items, key, value) ==
    IF \E i \in 1..Len(items) : items[i].k = key
    THEN [i \in 1..Len(items) |-> IF items[i].k = key THEN [k |-> key, v |-> value]
                                  ELSE items[i]]
    ELSE Append(items, [k |-> key, v |-> value])

\* value or [] / value or {}: what the falsy values are replaced by
OrEmpty(value, empty) == IF py_bool(value) THEN value ELSE empty

\* None if value is None else str(value), as a Python value
StrOrNone(value) == IF value.kind = "none" THEN PyNone ELSE PyStr(py_str(value))

\* '' if value is None else str(value)
StrOrEmpty(value) == IF value.kind = "none" THEN <<>> ELSE py_str(value)

\* the entry of the files property for one url (source lines 583-586)
file_entry(u) ==
    LET us == py_str(u)
        parts == Split(us, "/")
    IN  [name |-> IF Contains(us, <<"/">>) THEN parts[Len(parts)]
                  ELSE <<"f", "i", "l", "e">>,
         type |-> "external", external |-> [url |-> us]]

\* The property types _assign_property has a branch for, as the key spells them.
PropertyTypes ==
    [title |-> <<"t", "i", "t", "l", "e">>,
     rich_text |-> <<"r", "i", "c", "h", "_", "t", "e", "x", "t">>,
     url |-> <<"u", "r", "l">>,
     multi_select |-> <<"m", "u", "l", "t", "i", "_", "s", "e", "l", "e", "c", "t">>,
     files |-> <<"f", "i", "l", "e", "s">>,
     date |-> <<"d", "a", "t", "e">>,
     people |-> <<"p", "e", "o", "p", "l", "e">>,
     select |-> <<"s", "e", "l", "e", "c", "t">>,
     status |-> <<"s", "t", "a", "t", "u", "s">>,
     email |-> <<"e", "m", "a", "i", "l">>,
     checkbox |-> <<"c", "h", "e", "c", "k", "b", "o", "x">>,
     number |-> <<"n", "u", "m", "b", "e", "r">>,
     phone_number |-> <<"p", "h", "o", "n", "e", "_", "n", "u", "m", "b", "e", "r">>]

\* _assign_property: props with the property assigned; raised where the
\* method raises (iterating a value that is no iterable, .get on a value
\* that is no dict); a type without a branch assigns nothing
assign_property(props, name, ptype, value) ==
    LET set(v) == [props |-> Put(props, name, v), raised |-> FALSE]
        failed == [props |-> props, raised |-> TRUE]
        each == py_iter(OrEmpty(value, PyList(<<>>)))
    IN  CASE ptype = PropertyTypes.title ->
               set([title |-> <<[text |-> [content |-> StrOrEmpty(value)]]>>])
          [] ptype = PropertyTypes.rich_text ->
               set([rich_text |-> <<[type |-> "text",
                                     text |-> [content |-> StrOrEmpty(value)]]>>])
          [] ptype = PropertyTypes.url -> set([url |-> StrOrEmpty(value)])
          [] ptype = PropertyTypes.multi_select ->
               IF each.ok
               THEN set([multi_select |->
                            [i \in 1..Len(each.items) |-> [name |-> py_str(each.items[i])]]])
               ELSE failed
          [] ptype = PropertyTypes.files ->
               IF each.ok
               THEN set([files |-> [i \in 1..Len(each.items) |-> file_entry(each.items[i])]])
               ELSE failed
          [] ptype = PropertyTypes.date ->
               IF OrEmpty(value, PyDict(<<>>)).kind = "dict"
               THEN set([date |->
                            [start |-> py_get(OrEmpty(value, PyDict(<<>>)).v,
                                              <<"s", "t", "a", "r", "t">>),
                             end |-> py_get(OrEmpty(value, PyDict(<<>>)).v,
                                            <<"e", "n", "d">>),
                             time_zone |-> py_get(OrEmpty(value, PyDict(<<>>)).v,
                                                  <<"t", "i", "m", "e", "_", "z", "o",
                                                    "n", "e">>)]])
               ELSE failed
          [] ptype = PropertyTypes.people ->
               IF each.ok
               THEN set([people |->
                            [i \in 1..Len(each.items) |-> [id |-> py_str(each.items[i])]]])
               ELSE failed
          [] ptype = PropertyTypes.select -> set([select |-> [name |-> StrOrNone(value)]])
          [] ptype = PropertyTypes.status -> set([status |-> [name |-> StrOrNone(value)]])
          [] ptype = PropertyTypes.email -> set([email |-> StrOrNone(value)])
          [] ptype = PropertyTypes.checkbox -> set([checkbox |-> py_bool(value)])
          [] ptype = PropertyTypes.number -> set([number |-> value])
          [] ptype = PropertyTypes.phone_number -> set([phone_number |-> StrOrNone(value)])
          [] OTHER -> [props |-> props, raised |-> FALSE]

\* [a-z_]
LowerOrUnderscore == {"a", "b", "c", "d", "e", "f", "g", "h", "i", "j", "k", "l", "m",
                      "n", "o", "p", "q", "r", "s", "t", "u", "v", "w", "x", "y", "z",
                      "_"}

\* re.match(r'^(".*?"|[^:]+):\s*(.*)$', s): a quoted key ends at the first
\* quote that a colon follows; failing that the key is what stands before
\* the first colon.  rest is group 2; ok is FALSE for no match.
match_key_line(s) ==
    LET closes == {j \in 2..(Len(s) - 1) : s[j] = "\"" /\ s[j + 1] = ":"}
        colon == RunNotIn(s, 1, {":"}) + 1
    IN  IF s # <<>> /\ s[1] = "\"" /\ closes # {}
        THEN [ok |-> TRUE, key_raw |-> SubSeq(s, 1, MinOf(closes)),
              rest |-> LStrip(From(s, MinOf(closes) + 2))]
        ELSE IF colon >= 2 /\ colon <= Len(s)
        THEN [ok |-> TRUE, key_raw |-> SubSeq(s, 1, colon - 1),
              rest |-> LStrip(From(s, colon + 1))]
        ELSE [ok |-> FALSE, key_raw |-> <<>>, rest |-> <<>>]

\* re.match(r'^ntn:([a-z_]+):(.+)$', key)
match_ntn_key(key) ==
    LET n == RunIn(key, 5, LowerOrUnderscore)
    IN  IF /\ StartsWith(key, <<"n", "t", "n", ":">>)
           /\ n >= 1
           /\ StartsAt(key, 5 + n, <<":">>)
           /\ Len(key) >= 5 + n + 1
        THEN [ok |-> TRUE, prop_type |-> SubSeq(key, 5, 4 + n),
              prop_name |-> From(key, 5 + n + 1)]
        ELSE [ok |-> FALSE, prop_type |-> <<>>, prop_name |-> <<>>]

\* re.match(r'^\s{2}([^:]+):\s*(.*)$', t) for a t that starts with two spaces
match_sub_line(t) ==
    LET colon == RunNotIn(t, 3, {":"}) + 3
    IN  IF colon >= 4 /\ colon <= Len(t)
        THEN [ok |-> TRUE, sub_key |-> Strip(SubSeq(t, 3, colon - 1)),
              sub_val |-> parse_scalar(LStrip(From(t, colon + 1)))]
        ELSE [ok |-> FALSE, sub_key |-> <<>>, sub_val |-> PyNone]

\* the loop that collects the list items and the map entries below a key
\* without a value (source lines 526-541), from line j on
RECURSIVE collect_structure(_, _, _, _)
collect_structure(lines, j, values_list, values_map) ==
    IF j >= Len(lines)
    THEN [j |-> j, values_list |-> values_list, values_map |-> values_map]
    ELSE IF StartsWith(lines[j + 1], <<" ", " ", "-", " ">>)
    THEN collect_structure(lines, j + 1,
             Append(values_list, parse_scalar(Strip(From(lines[j + 1], 5)))), values_map)
    ELSE IF StartsWith(lines[j + 1], <<" ", " ">>) /\ match_sub_line(lines[j + 1]).ok
    THEN collect_structure(lines, j + 1, values_list,
             py_set(values_map, match_sub_line(lines[j + 1]).sub_key,
                    match_sub_line(lines[j + 1]).sub_val))
    ELSE [j |-> j, values_list |-> values_list, values_map |-> values_map]

\* The value of a key without an inline value: the list, else the map, else
\* None.
structure_value(c) ==
    IF c.values_list # <<>> THEN PyList(c.values_list)
    ELSE IF c.values_map # <<>> THEN PyDict(c.values_map)
    ELSE PyNone

RECURSIVE front_matter_from(_, _, _)

\* a is what _assign_property left; the loop goes on at line i
front_matter_assigned(lines, i, a) ==
    IF a.raised THEN [props |-> a.props, idx |-> i, raised |-> TRUE]
    ELSE front_matter_from(lines, i, a.props)

\* a declaration line with the key ntn:<type>:<name> (source lines 514-559)
front_matter_declared(lines, i, properties, km, rest, c) ==
    IF rest = <<>>
    THEN front_matter_assigned(lines, c.j,
             assign_property(properties, km.prop_name, km.prop_type, structure_value(c)))
    ELSE front_matter_assigned(lines, i + 1,
             assign_property(properties, km.prop_name, km.prop_type, parse_scalar(rest)))

\* a line of the region that is neither blank nor the closing "---": m is the
\* match of the key pattern (source lines 502-513)
front_matter_line(lines, i, properties, m) ==
    IF m.ok /\ match_ntn_key(strip_quotes(m.key_raw)).ok
    THEN front_matter_declared(lines, i, properties,
             match_ntn_key(strip_quotes(m.key_raw)), m.rest,
             collect_structure(lines, i + 1, <<>>, <<>>))
    ELSE front_matter_from(lines, i + 1, properties)

\* the loop of _parse_front_matter_properties from line i on (source lines
\* 492-561)
front_matter_from(lines, i, properties) ==
    IF i >= Len(lines) THEN [props |-> properties, idx |-> i, raised |-> FALSE]
    ELSE IF Strip(lines[i + 1]) = Dashes
    THEN [props |-> properties, idx |-> i + 1, raised |-> FALSE]
    ELSE IF Strip(lines[i + 1]) = <<>> THEN front_matter_from(lines, i + 1, properties)
    ELSE front_matter_line(lines, i, properties, match_key_line(Strip(lines[i + 1])))

\* _parse_front_matter_properties: (properties, next_index), or raised
parse_front_matter_properties(lines, start_index) ==
    IF start_index >= Len(lines) \/ Strip(lines[start_index + 1]) # Dashes
    THEN [props |-> EmptyDict, idx |-> start_index, raised |-> FALSE]
    ELSE front_matter_from(lines, start_index + 1, EmptyDict)

\* The page convert_markdown returns; the parent id is a new uuid4.
PageOf(properties, r) ==
    [raised |-> r.raised,
     page |-> [parent |-> [page_id |-> "uuid4"], properties |-> properties,
               children |-> r.blocks]]

\* A converter that would take the page title from a heading line that
\* opens the body, and leave that line out of the children.
convert_body_titled(lines, fm) ==
    IF fm.raised THEN PageOf(EmptyDict, [raised |-> TRUE, blocks |-> <<>>])
    ELSE IF fm.idx < Len(lines) /\ StartsWith(lines[fm.idx + 1], <<"#", " ">>)
    THEN PageOf(Put(fm.props, <<"t", "i", "t", "l", "e">>,
                    [title |-> <<[text |-> [content |-> From(lines[fm.idx + 1], 3)]]>>]),
                parse_blocks(lines, fm.idx + 1, 0))
    ELSE PageOf(fm.props, parse_blocks(lines, fm.idx, 0))

\* convert_markdown behind the front matter: fm is what
\* _parse_front_matter_properties returned
convert_body(lines, fm) ==
    IF fm.raised THEN PageOf(EmptyDict, [raised |-> TRUE, blocks |-> <<>>])
    ELSE PageOf(fm.props, parse_blocks(lines, fm.idx, 0))

\* NotionMarkdownToPayloadConverter.convert_markdown: raised tells whether
\* the call raised, page is the Document it returned otherwise.  The text
\* starts with front matter when its first line is "---" and a later one is.
convert_markdown(markdown_text) ==
    LET lines == Split(markdown_text, "\n")
    IN  IF /\ Strip(lines[1]) = Dashes
           /\ \E k \in 2..Len(lines) : Strip(lines[k]) = Dashes
        THEN convert_body(lines, parse_front_matter_properties(lines, 0))
        ELSE convert_body(lines, [props |-> EmptyDict, idx |-> 0, raised |-> FALSE])

\* markdown_to_payload: a new converter for every call
markdown_to_payload(markdown_text) == convert_markdown(markdown_text)

-----------------------------------------------------------------------------
(* Round trips: a Document is serialized and parsed back, and the text the  *)
(* serializer wrote is parsed and serialized again                          *)

\* Most lines of a generated Markdown text.
MaxLines == 3
\* Most front matter lines of a generated Markdown text.
MaxFrontMatterLines == 2

\* A snapshot span with style flags set and, where url is not empty, a link.
StyledSpan(content, flags, url) ==
    LET styled == [k \in DOMAIN NoStyle |-> IF k \in flags THEN TRUE ELSE NoStyle[k]]
        text == IF url = <<>> THEN [content |-> content]
                ELSE [content |-> content, link |-> [url |-> url]]
    IN  [type |-> "text", text |-> text, plain_text |-> content,
         annotations |-> styled]

\* The top-level blocks of the snapshots that are taken through the round trip.
RoundTripBlocks ==
    {ApiBlock("paragraph", [rich_text |-> <<StyledSpan(<<"x">>, {}, <<>>)>>]),
     ApiBlock("paragraph", [rich_text |-> <<StyledSpan(<<"x">>, {"bold"}, <<>>)>>]),
     ApiBlock("paragraph",
              [rich_text |-> <<StyledSpan(<<"x">>, {"bold", "strikethrough"}, <<>>)>>]),
     ApiBlock("paragraph", [rich_text |-> <<StyledSpan(<<"x">>, {"bold"}, <<"u">>)>>]),
     ApiBlock("paragraph", [rich_text |-> <<>>]),
     ApiBlock("heading_1", [rich_text |-> <<>>]),
     ApiBlock("numbered_list_item", [rich_text |-> <<StyledSpan(<<"a">>, {}, <<>>)>>]),
     ApiBlock("divider", EmptyDict),
     WithChildren(ApiBlock("paragraph", [rich_text |-> <<StyledSpan(<<"a">>, {}, <<>>)>>]),
                  "top",
                  <<ApiBlock("paragraph",
                             [rich_text |-> <<StyledSpan(<<"b">>, {}, <<>>)>>])>>)}

RoundTripSnapshots == SeqsOf(RoundTripBlocks, 0, MaxBlocks)

\* The lines generated Markdown texts are made of.
BodyLines ==
    {<<"a">>,
     <<>>,
     <<"-", "-", "-">>,
     <<"-", " ", "a">>,
     <<" ", " ", "-", " ", "b">>,
     <<"1", ".", " ", "a">>,
     <<"#", " ", "a">>,
     <<"*", "*", "a", "*", "*">>,
     <<" ", " ", " ", " ", "b">>}

MarkdownTexts == {JoinWith(lines, "\n") : lines \in SeqsOf(BodyLines, 0, MaxLines)}

InitRoundTrip ==
    /\ requests = Unused
    /\ remote = Unused
    /\ frames = Unused
    /\ \/ /\ pc = "snapshot"
          /\ api_response \in RoundTripSnapshots
          /\ inputs = Unused
       \/ /\ pc = "text"
          /\ inputs \in MarkdownTexts
          /\ api_response = Unused
    /\ payload = Unused
    /\ payload2 = Unused
    /\ markdown = Unused
    /\ markdown2 = Unused
    /\ numbered_list_counters_by_indent = Unused
    /\ in_numbered_list_by_indent = Unused
    /\ outputs = Unused

\* What the caller holds after markdown_to_payload returned r or raised.
Parsed(r) ==
    /\ pc' = IF r.raised THEN "raised" ELSE "payload"
    /\ payload' = IF r.raised THEN Unused ELSE r.page

\* payload = markdown_to_payload(inputs)
ParseMarkdown ==
    /\ pc = "text"
    /\ Parsed(markdown_to_payload(inputs))
    /\ UNCHANGED <<api_response, payload2, markdown, markdown2,
                   numbered_list_counters_by_indent, in_numbered_list_by_indent,
                   outputs, inputs>>
    /\ UNCHANGED upload_vars

\* markdown = payload_to_markdown(payload)
Serialize ==
    /\ pc = "payload"
    /\ markdown' = payload_to_markdown(payload)
    /\ pc' = "markdown"
    /\ UNCHANGED <<api_response, payload, payload2, markdown2,
                   numbered_list_counters_by_indent, in_numbered_list_by_indent,
                   outputs, inputs>>
    /\ UNCHANGED upload_vars

\* What the caller holds after the second markdown_to_payload returned r or raised.
Reparsed(r) ==
    /\ pc' = IF r.raised THEN "raised" ELSE "payload2"
    /\ payload2' = IF r.raised THEN Unused ELSE r.page

\* payload2 = markdown_to_payload(markdown)
Reparse ==
    /\ pc = "markdown"
    /\ Reparsed(markdown_to_payload(markdown))
    /\ UNCHANGED <<api_response, payload, markdown, markdown2,
                   numbered_list_counters_by_indent, in_numbered_list_by_indent,
                   outputs, inputs>>
    /\ UNCHANGED upload_vars

\* markdown2 = payload_to_markdown(payload2)
Reserialize ==
    /\ pc = "payload2"
    /\ markdown2' = payload_to_markdown(payload2)
    /\ pc' = "markdown2"
    /\ UNCHANGED <<api_response, payload, payload2, markdown,
                   numbered_list_counters_by_indent, in_numbered_list_by_indent,
                   outputs, inputs>>
    /\ UNCHANGED upload_vars

NextRoundTrip == ApiToPayload \/ ParseMarkdown \/ Serialize \/ Reparse \/ Reserialize

SpecRoundTrip == InitRoundTrip /\ [][NextRoundTrip]_vars

-----------------------------------------------------------------------------
(* Properties of the round trips *)

\* The kinds of a Document's top-level blocks, in order.
KindsOf(children) == [i \in 1..Len(children) |-> Get(children[i], "type", "None")]

\* The text content of a block: the contents of its spans, concatenated.
BlockText(block) ==
    Join(SpanContents(Get(Get(block, Get(block, "type", "None"), EmptyDict),
                          "rich_text", <<>>)))

\* A text with trailing whitespace stripped from each line and trailing blank
\* lines removed, as tests/test_converters.py normalizes before comparing.
normalize_markdown(content) ==
    LET lines == Split(content, "\n")
    IN  JoinWith(TrimTrailingEmpty([i \in 1..Len(lines) |-> RStrip(lines[i])]),
                 "\n")

\* C1: parsing the serialization of a Document yields the same sequence of
\* top-level block kinds as the Document has.
C1_KindsPreserved ==
    pc \in {"payload2", "markdown2"} =>
        KindsOf(payload2.children) = KindsOf(payload.children)

\* C2: where the round trip keeps the kinds, each top-level block of the
\* reparsed Document has the text content of the block it came from.
C2_TextPreserved ==
    (pc \in {"payload2", "markdown2"}
        /\ KindsOf(payload2.children) = KindsOf(payload.children)) =>
        \A i \in 1..Len(payload.children) :
            BlockText(payload2.children[i]) = BlockText(payload.children[i])

\* C3: the text the serializer wrote, parsed and serialized again, is the same
\* text once both are normalized.
C3_SerializedTextFixedPoint ==
    pc = "markdown2" => normalize_markdown(markdown2) = normalize_markdown(markdown)

-----------------------------------------------------------------------------
(* markdown_to_payload called on texts that open with front matter *)

\* The front matter lines of generated texts.
FrontMatterLines ==
    {<<"\"", "n", "t", "n", ":", "t", "i", "t", "l", "e", ":", "T", "\"", ":", " ", "H", "e", "l", "l", "o">>,
     <<"\"", "n", "t", "n", ":", "n", "u", "m", "b", "e", "r", ":", "N", "\"", ":", " ", "5">>,
     <<"\"", "n", "t", "n", ":", "d", "a", "t", "e", ":", "D", "u", "e", "\"", ":", " ", "2", "0", "2", "4", "-", "0", "1", "-", "0", "1">>,
     <<"\"", "n", "t", "n", ":", "d", "a", "t", "e", ":", "D", "u", "e", "\"", ":">>,
     <<" ", " ", "s", "t", "a", "r", "t", ":", " ", "2", "0", "2", "4", "-", "0", "1", "-", "0", "1">>,
     <<" ", " ", "-", " ", "a">>,
     <<"\"", "n", "t", "n", ":", "m", "u", "l", "t", "i", "_", "s", "e", "l", "e", "c", "t", ":", "T", "\"", ":", " ", "5">>,
     <<"\"", "n", "t", "n", ":", "m", "u", "l", "t", "i", "_", "s", "e", "l", "e", "c", "t", ":", "T", "\"", ":", " ", "a", "b", "c">>,
     <<"\"", "n", "t", "n", ":", "m", "u", "l", "t", "i", "_", "s", "e", "l", "e", "c", "t", ":", "T", "\"", ":">>,
     <<"\"", "n", "t", "n", ":", "p", "e", "o", "p", "l", "e", ":", "P", "\"", ":", " ", "t", "r", "u", "e">>,
     <<"\"", "n", "t", "n", ":", "f", "i", "l", "e", "s", ":", "F", "\"", ":", " ", "1", ".", "5">>,
     <<"n", "t", "n", ":", "t", "i", "t", "l", "e", ":", "T", ":", " ", "x">>}

\* A front matter block of the generated lines, then one body line.
FrontMatterTexts ==
    {JoinWith(<<Dashes>> \o lines \o <<Dashes, <<"x">>>>, "\n") :
        lines \in SeqsOf(FrontMatterLines, 0, MaxFrontMatterLines)}

InitParse ==
    /\ requests = Unused
    /\ remote = Unused
    /\ frames = Unused
    /\ pc = "text"
    /\ inputs \in FrontMatterTexts
    /\ api_response = Unused
    /\ payload = Unused
    /\ payload2 = Unused
    /\ markdown = Unused
    /\ markdown2 = Unused
    /\ numbered_list_counters_by_indent = Unused
    /\ in_numbered_list_by_indent = Unused
    /\ outputs = Unused

NextParse == ParseMarkdown

SpecParse == InitParse /\ [][NextParse]_vars

\* C4: markdown_to_payload returns a Document for every text and never raises.
C4_ParseNeverRaises == pc # "raised"

-----------------------------------------------------------------------------
(* A table with a column header, serialized and parsed back *)

\* Most rows of a generated table.
MaxRows == 3
\* Most columns of a generated table.
MaxCols == 2

\* The texts of the cells of generated tables; an empty cell holds no span.
CellTexts == {<<>>, <<"a">>, <<"b", "c">>}

TableCell(text) == IF text = <<>> THEN <<>> ELSE <<TextSpan(text)>>

TableRow(texts) ==
    [type |-> "table_row",
     table_row |-> [cells |-> [c \in 1..Len(texts) |-> TableCell(texts[c])]]]

\* A table block of `width` columns with a column header, its rows under the
\* type key.
TableBlock(width, rows) ==
    [type |-> "table",
     table |-> [table_width |-> width, has_column_header |-> TRUE,
                has_row_header |-> FALSE,
                children |-> [i \in 1..Len(rows) |-> TableRow(rows[i])]]]

TableDocumentsUpTo(max_rows, max_cols) ==
    UNION {{Document(<<TableBlock(width, rows)>>) :
               rows \in SeqsOf([1..width -> CellTexts], 1, max_rows)} :
           width \in 1..max_cols}

InitTable ==
    /\ requests = Unused
    /\ remote = Unused
    /\ frames = Unused
    /\ pc = "payload"
    /\ payload \in TableDocumentsUpTo(MaxRows, MaxCols)
    /\ api_response = Unused
    /\ payload2 = Unused
    /\ markdown = Unused
    /\ markdown2 = Unused
    /\ numbered_list_counters_by_indent = Unused
    /\ in_numbered_list_by_indent = Unused
    /\ outputs = Unused
    /\ inputs = Unused

NextTable == Serialize \/ Reparse

SpecTable == InitTable /\ [][NextTable]_vars

\* The texts of the cells of the rows of a table block.
CellTextsOf(table) ==
    LET rows == Get(Get(table, "table", EmptyDict), "children", <<>>)
    IN  [i \in 1..Len(rows) |->
            [c \in 1..Len(rows[i].table_row.cells) |->
                Join(SpanContents(rows[i].table_row.cells[c]))]]

AllDashes(text) == text # <<>> /\ \A i \in 1..Len(text) : text[i] = "-"

\* A separator line: the first cell dashes, every other cell dashes between
\* two colons.
SeparatorShape(line) ==
    LET cells == table_cells(line)
    IN  /\ cells # <<>>
        /\ AllDashes(cells[1])
        /\ \A c \in 2..Len(cells) :
              /\ Len(cells[c]) >= 3
              /\ cells[c][1] = ":"
              /\ cells[c][Len(cells[c])] = ":"
              /\ AllDashes(SubSeq(cells[c], 2, Len(cells[c]) - 1))

\* C11: a table with a column header and n rows is written as a header line,
\* one separator line and n-1 data lines, and that text parses to exactly one
\* table block with a column header whose n rows hold the original cell texts.
C11_TableRoundTrip ==
    /\ pc = "markdown" =>
          /\ Len(Split(markdown, "\n")) = Len(payload.children[1].table.children) + 1
          /\ SeparatorShape(Split(markdown, "\n")[2])
    /\ pc = "payload2" =>
          /\ Len(payload2.children) = 1
          /\ payload2.children[1].type = "table"
          /\ payload2.children[1].table.has_column_header
          /\ CellTextsOf(payload2.children[1]) = CellTextsOf(payload.children[1])

-----------------------------------------------------------------------------
(* A paragraph of one code span, serialized and parsed back *)

\* The contents of generated code spans: plain text, text with a blank, text
\* that holds style markers, and text that holds a backtick.
CodeContents ==
    {<<"x">>, <<"a", " ", "b">>, <<"*", "*", "a", "*", "*">>, <<"a", Backtick, "b">>}

\* A span with code set and the style flags of `flags` set besides.
CodeSpan(content, flags) ==
    [type |-> "text", text |-> [content |-> content],
     annotations |-> [k \in DOMAIN NoStyle |->
                         IF k = "code" \/ k \in flags THEN TRUE ELSE NoStyle[k]]]

CodeSpanDocuments ==
    {Document(<<DocBlock("paragraph", [rich_text |-> <<CodeSpan(content, flags)>>])>>) :
        content \in CodeContents,
        flags \in SUBSET {"bold", "italic", "strikethrough", "underline"}}

InitCodeSpan ==
    /\ requests = Unused
    /\ remote = Unused
    /\ frames = Unused
    /\ pc = "payload"
    /\ payload \in CodeSpanDocuments
    /\ api_response = Unused
    /\ payload2 = Unused
    /\ markdown = Unused
    /\ markdown2 = Unused
    /\ numbered_list_counters_by_indent = Unused
    /\ in_numbered_list_by_indent = Unused
    /\ outputs = Unused
    /\ inputs = Unused

NextCodeSpan == Serialize \/ Reparse

SpecCodeSpan == InitCodeSpan /\ [][NextCodeSpan]_vars

\* The span of the generated document.
TheCodeSpan == payload.children[1].paragraph.rich_text[1]

\* The text is the content between single backticks, and it was decoded to
\* one paragraph of one span that has code set and no other style flag.
CodeSpanKept ==
    /\ pc \in {"markdown", "payload2"} =>
          markdown = <<Backtick>> \o TheCodeSpan.text.content \o <<Backtick>>
    /\ pc = "payload2" =>
          /\ Len(payload2.children) = 1
          /\ payload2.children[1].type = "paragraph"
          /\ Len(payload2.children[1].paragraph.rich_text) = 1
          /\ LET annotations == payload2.children[1].paragraph.rich_text[1].annotations
             IN  /\ annotations.code
                 /\ \A k \in {"bold", "italic", "strikethrough", "underline"} :
                       ~annotations[k]

-----------------------------------------------------------------------------
(* markdown_to_payload on texts with and without front matter and headings *)

\* The lines the texts of this specification are made of.
TitleLines ==
    {<<"#", " ", "a">>,
     <<"#", "#", " ", "b">>,
     <<"a">>,
     <<>>,
     Dashes,
     <<"\"", "n", "t", "n", ":", "t", "i", "t", "l", "e", ":", "T", "\"", ":", " ", "b">>,
     <<"\"", "n", "t", "n", ":", "r", "i", "c", "h", "_", "t", "e", "x", "t", ":", "R",
       "\"", ":", " ", "c">>}

TitleTexts == {JoinWith(lines, "\n") : lines \in SeqsOf(TitleLines, 0, MaxLines)}

InitTitle ==
    /\ requests = Unused
    /\ remote = Unused
    /\ frames = Unused
    /\ pc = "text"
    /\ inputs \in TitleTexts
    /\ api_response = Unused
    /\ payload = Unused
    /\ payload2 = Unused
    /\ markdown = Unused
    /\ markdown2 = Unused
    /\ numbered_list_counters_by_indent = Unused
    /\ in_numbered_list_by_indent = Unused
    /\ outputs = Unused

NextTitle == ParseMarkdown

SpecTitle == InitTitle /\ [][NextTitle]_vars

\* The text opens with a front matter region that is closed: its first line
\* is "---" and a later one is.
ClosedFrontMatter(lines) ==
    /\ Strip(lines[1]) = Dashes
    /\ \E k \in 2..Len(lines) : Strip(lines[k]) = Dashes

\* The lines of the closed front matter region, between its two "---" lines.
FrontMatterRegion(lines) ==
    LET close == MinOf({k \in 2..Len(lines) : Strip(lines[k]) = Dashes})
    IN  SubSeq(lines, 2, close - 1)

\* A line of the region declares a title property called `name`.
DeclaresTitle(lines, name) ==
    \E k \in 1..Len(FrontMatterRegion(lines)) :
        Contains(FrontMatterRegion(lines)[k],
                 <<"n", "t", "n", ":", "t", "i", "t", "l", "e", ":">> \o name)

-----------------------------------------------------------------------------
(* markdown_to_payload on texts of list items, toggles and toggle headings   *)
(* at several indents                                                        *)

\* The lines the texts of this specification are made of.
NestLines ==
    {<<"-", " ", "a">>,
     <<" ", " ", "-", " ", "b">>,
     <<" ", " ", " ", " ", "-", " ", "c">>,
     <<"1", ".", " ", "a">>,
     <<" ", " ", " ", "a", ".", " ", "b">>,
     <<"-", " ", "[", ">", "]", " ", "t">>,
     <<"#", " ", "[", ">", "]", " ", "h">>,
     <<" ", " ", "-", " ", "[", "x", "]", " ", "d">>,
     <<" ", " ", "p">>,
     <<>>}

NestTexts == {JoinWith(lines, "\n") : lines \in SeqsOf(NestLines, 1, MaxLines)}

InitNest ==
    /\ requests = Unused
    /\ remote = Unused
    /\ frames = Unused
    /\ pc = "text"
    /\ inputs \in NestTexts
    /\ api_response = Unused
    /\ payload = Unused
    /\ payload2 = Unused
    /\ markdown = Unused
    /\ markdown2 = Unused
    /\ numbered_list_counters_by_indent = Unused
    /\ in_numbered_list_by_indent = Unused
    /\ outputs = Unused

NextNest == ParseMarkdown

SpecNest == InitNest /\ [][NextNest]_vars

\* The line is one of a list item, a toggle or a toggle heading.
CollectsChildren(line) ==
    LET s == Strip(line)
    IN  \/ StartsWith(s, <<"-", " ">>)
        \/ OrderedMarkerEnd(s, 1) > 0
        \/ \E n \in 1..3 : StartsWith(s, Hashes(n) \o <<" ", "[", ">", "]", " ">>)

\* The last line of the maximal run of lines behind line k, up to line `to`,
\* whose indent level is greater than that of line k; k when there is none.
RunEnd(lines, k, to) ==
    LET p == get_indent_level(lines[k])
        stops == {j \in (k + 1)..to : get_indent_level(lines[j]) <= p}
    IN  IF stops = {} THEN to ELSE MinOf(stops) - 1

\* The forest the rule of the claim gives for lines k..to: a line that
\* collects children owns the maximal run of deeper lines behind it, and the
\* line behind the run is the next block outside it.  A tree is the sequence
\* of the trees of its children.
RECURSIVE ForestDue(_, _, _)
ForestDue(lines, k, to) ==
    IF k > to THEN <<>>
    ELSE IF CollectsChildren(lines[k])
    THEN <<ForestDue(lines, k + 1, RunEnd(lines, k, to))>>
         \o ForestDue(lines, RunEnd(lines, k, to) + 1, to)
    ELSE << <<>> >> \o ForestDue(lines, k + 1, to)

\* The top level: an indented line that follows no collecting line is skipped.
RECURSIVE TopForestDue(_, _)
TopForestDue(lines, k) ==
    IF k > Len(lines) THEN <<>>
    ELSE IF get_indent_level(lines[k]) > 0 THEN TopForestDue(lines, k + 1)
    ELSE IF CollectsChildren(lines[k])
    THEN <<ForestDue(lines, k + 1, RunEnd(lines, k, Len(lines)))>>
         \o TopForestDue(lines, RunEnd(lines, k, Len(lines)) + 1)
    ELSE << <<>> >> \o TopForestDue(lines, k + 1)

\* The forest of a block list: per block the forest of its children, the
\* top-level ones and the ones under the type key.
RECURSIVE ForestOf(_)
ForestOf(blocks) ==
    [i \in 1..Len(blocks) |->
        ForestOf(Get(blocks[i], "children", <<>>)
                 \o Get(blocks[i][blocks[i].type], "children", <<>>))]

\* Where the children are kept: under the type key for bulleted, numbered
\* and to-do items, at the top level of the block for the others.
ChildrenInPlace(block) ==
    IF block.type \in {"bulleted_list_item", "numbered_list_item", "to_do"}
    THEN Get(block, "children", <<>>) = <<>>
    ELSE Get(block[block.type], "children", <<>>) = <<>>

-----------------------------------------------------------------------------
(* markdown_to_payload on texts that open with a closed front matter region *)

\* The ways a key is written: bare, in double quotes, in single quotes.
KeyQuotes == {<<>>, <<"\"">>, <<"'">>}

\* The declarations of the region: the quote, the type, the name, the value.
Declarations ==
    [quote : KeyQuotes,
     ptype : {<<"t", "i", "t", "l", "e">>,
              <<"r", "i", "c", "h", "_", "t", "e", "x", "t">>},
     name  : {<<"T">>, <<"R">>},
     value : {<<"x">>}]

\* The line `key: value` of a declaration, its key being ntn:<type>:<Name>.
DeclarationLine(d) ==
    d.quote \o <<"n", "t", "n", ":">> \o d.ptype \o <<":">> \o d.name \o d.quote
    \o <<":", " ">> \o d.value

\* The name of a property type as a dict key.
TypeKey(ptype) == IF ptype = <<"t", "i", "t", "l", "e">> THEN "title" ELSE "rich_text"

PropertyBodies == {<<>>, <<<<"a">>>>, <<<<"b">>, <<"a">>>>}

\* "---", one or two declarations, "---", the body.
PropertyTexts ==
    {JoinWith(<<Dashes>> \o [k \in 1..Len(ds) |-> DeclarationLine(ds[k])]
              \o <<Dashes>> \o body, "\n") :
        ds \in SeqsOf(Declarations, 1, MaxFrontMatterLines), body \in PropertyBodies}

InitProperty ==
    /\ requests = Unused
    /\ remote = Unused
    /\ frames = Unused
    /\ pc = "text"
    /\ inputs \in PropertyTexts
    /\ api_response = Unused
    /\ payload = Unused
    /\ payload2 = Unused
    /\ markdown = Unused
    /\ markdown2 = Unused
    /\ numbered_list_counters_by_indent = Unused
    /\ in_numbered_list_by_indent = Unused
    /\ outputs = Unused

NextProperty == ParseMarkdown

SpecProperty == InitProperty /\ [][NextProperty]_vars

\* The lines behind the line that closes the front matter region.
BodyBehind(lines) ==
    LET close == MinOf({k \in 2..Len(lines) : Strip(lines[k]) = Dashes})
    IN  SubSeq(lines, close + 1, Len(lines))

\* The property of the name of d is set, under the type of d, to spans that
\* read the value of d.
PropertySet(properties, d) ==
    /\ Has(properties, d.name)
    /\ Has(properties[d.name], TypeKey(d.ptype))
    /\ Len(properties[d.name][TypeKey(d.ptype)]) = 1
    /\ properties[d.name][TypeKey(d.ptype)][1].text.content = d.value

\* The body is parsed from the line behind the closing "---": one paragraph
\* per line of it.
BodyResumes(lines) ==
    /\ Len(payload.children) = Len(BodyBehind(lines))
    /\ \A k \in 1..Len(payload.children) :
          /\ payload.children[k].type = "paragraph"
          /\ BlockText(payload.children[k]) = BodyBehind(lines)[k]

\* The last declaration of a name in the region is written bare or in
\* double quotes.
LastOfName(lines, d) ==
    \E k \in 1..Len(FrontMatterRegion(lines)) :
        /\ FrontMatterRegion(lines)[k] = DeclarationLine(d)
        /\ \A j \in (k + 1)..Len(FrontMatterRegion(lines)) :
              \A e \in Declarations :
                  FrontMatterRegion(lines)[j] = DeclarationLine(e) => e.name # d.name

\* C15: in a closed front matter region every declaration line whose key is
\* ntn:<type>:<Name>, written bare or in quotes, sets properties[<Name>] to
\* the value decoded for <type> (the last declaration of a name counts), and
\* the body is parsed from the line behind the closing "---".
C15_DeclarationSetsProperty ==
    pc = "payload" =>
        /\ \A d \in Declarations :
              LastOfName(Split(inputs, "\n"), d) /\ d.quote # <<"'">>
                  => PropertySet(payload.properties, d)
        /\ BodyResumes(Split(inputs, "\n"))

-----------------------------------------------------------------------------
(* markdown_to_payload on texts of checkbox list lines                       *)

UncheckedMarker == <<"-", " ", "[", " ", "]", " ">>
CheckedMarker == <<"-", " ", "[", "x", "]", " ">>

\* The item texts: plain, and holding a checkbox of their own.
TodoItemTexts ==
    {<<"a">>,
     <<"s", "e", "e", " ", "[", "x", "]">>,
     <<"[", " ", "]", " ", "b">>,
     <<"[", "x", "]", " ", "b">>}

TodoLines == {marker \o text : marker \in {UncheckedMarker, CheckedMarker},
                               text \in TodoItemTexts}

TodoTexts == {JoinWith(lines, "\n") : lines \in SeqsOf(TodoLines, 1, MaxLines)}

InitTodo ==
    /\ requests = Unused
    /\ remote = Unused
    /\ frames = Unused
    /\ pc = "text"
    /\ inputs \in TodoTexts
    /\ api_response = Unused
    /\ payload = Unused
    /\ payload2 = Unused
    /\ markdown = Unused
    /\ markdown2 = Unused
    /\ numbered_list_counters_by_indent = Unused
    /\ in_numbered_list_by_indent = Unused
    /\ outputs = Unused

NextTodo == ParseMarkdown

SpecTodo == InitTodo /\ [][NextTodo]_vars

\* C16: a checkbox list line becomes a to_do block that is checked if and
\* only if the marker of the line is "- [x] "; a line with the marker
\* "- [ ] " is unchecked whatever its item text holds.
C16_CheckedIffMarker ==
    pc = "payload" =>
        /\ Len(payload.children) = Len(Split(inputs, "\n"))
        /\ \A k \in 1..Len(payload.children) :
              /\ payload.children[k].type = "to_do"
              /\ payload.children[k].to_do.checked
                    <=> StartsWith(Split(inputs, "\n")[k], CheckedMarker)

-----------------------------------------------------------------------------
(* markdown_to_payload on texts of lines with <notion-page> tags             *)

PageIds == {<<"p">>, <<"q">>}

\* <notion-page id="..."></notion-page>
PageElement(id) ==
    PageTag \o <<" ", "i", "d", "=", "\"">> \o id \o <<"\"", ">", "<", "/">>
    \o <<"n", "o", "t", "i", "o", "n", "-", "p", "a", "g", "e", ">">>

PageTails == {<<" ", "t", "a", "i", "l">>, <<"x">>}

\* A tag alone, a tag with text behind it, a tag with text before it, and
\* plain text.
PageLines ==
    {PageElement(id) : id \in PageIds}
    \cup {PageElement(id) \o tail : id \in PageIds, tail \in PageTails}
    \cup {<<"s", "e", "e", " ">> \o PageElement(<<"p">>), <<"a">>}

PageTexts == {JoinWith(lines, "\n") : lines \in SeqsOf(PageLines, 1, MaxLines)}

InitPage ==
    /\ requests = Unused
    /\ remote = Unused
    /\ frames = Unused
    /\ pc = "text"
    /\ inputs \in PageTexts
    /\ api_response = Unused
    /\ payload = Unused
    /\ payload2 = Unused
    /\ markdown = Unused
    /\ markdown2 = Unused
    /\ numbered_list_counters_by_indent = Unused
    /\ in_numbered_list_by_indent = Unused
    /\ outputs = Unused

NextPage == ParseMarkdown

SpecPage == InitPage /\ [][NextPage]_vars

\* The block is a paragraph whose spans are the mention of page id and
\* then the text tail.
MentionThenText(block, id, tail) ==
    /\ block.type = "paragraph"
    /\ Len(block.paragraph.rich_text) = 2
    /\ block.paragraph.rich_text[1].type = "mention"
    /\ block.paragraph.rich_text[1].mention.page.id = id
    /\ block.paragraph.rich_text[2].type = "text"
    /\ block.paragraph.rich_text[2].text.content = tail

\* C17: a line is a link_to_page block exactly when the whole line is one
\* <notion-page id="..."></notion-page> tag; a line that starts with the tag
\* and goes on with text is a paragraph of the page mention and that text.
C17_LinkToPageOnlyWholeLine ==
    pc = "payload" =>
        /\ Len(payload.children) = Len(Split(inputs, "\n"))
        /\ \A k \in 1..Len(payload.children) :
              /\ payload.children[k].type = "link_to_page"
                    <=> \E id \in PageIds : Split(inputs, "\n")[k] = PageElement(id)
              /\ \A id \in PageIds, tail \in PageTails :
                    Split(inputs, "\n")[k] = PageElement(id) \o tail
                        => MentionThenText(payload.children[k], id, tail)

-----------------------------------------------------------------------------
(* payload_to_markdown on documents with columns inside and outside a        *)
(* column_list                                                               *)

PlainParagraph(content) ==
    [type |-> "paragraph", paragraph |-> [rich_text |-> <<TextSpan(content)>>]]

\* A column whose one child is a paragraph reading `content`.
ColumnOf(content) ==
    [type |-> "column", column |-> [children |-> <<PlainParagraph(content)>>]]

\* Paragraphs, a column_list with one column, a column that is a direct child
\* of the document, and one that is a child of a list item.
ColumnBlocks ==
    {PlainParagraph(<<"a">>),
     PlainParagraph(<<"b">>),
     [type |-> "column_list", column_list |-> [children |-> <<ColumnOf(<<"y">>)>>]],
     ColumnOf(<<"x">>),
     [type |-> "bulleted_list_item",
      bulleted_list_item |-> [rich_text |-> <<TextSpan(<<"i">>)>>,
                              children |-> <<ColumnOf(<<"z">>)>>]]}

ColumnDocuments == {Document(blocks) : blocks \in SeqsOf(ColumnBlocks, 1, MaxBlocks)}

InitColumn ==
    /\ requests = Unused
    /\ remote = Unused
    /\ frames = Unused
    /\ pc = "payload"
    /\ payload \in ColumnDocuments
    /\ api_response = Unused
    /\ payload2 = Unused
    /\ markdown = Unused
    /\ markdown2 = Unused
    /\ numbered_list_counters_by_indent = Unused
    /\ in_numbered_list_by_indent = Unused
    /\ outputs = Unused
    /\ inputs = Unused

NextColumn == Serialize

SpecColumn == InitColumn /\ [][NextColumn]_vars

\* The texts of the paragraphs of a block list, at any depth.
ParagraphTexts(blocks) ==
    {AllBlocks(blocks)[i].paragraph.rich_text[1].text.content :
        i \in {j \in 1..Len(AllBlocks(blocks)) : AllBlocks(blocks)[j].type = "paragraph"}}

\* C18: a column that is no direct child of a column_list degrades
\* gracefully: its children are written as an ordinary block sequence, so
\* the text of every paragraph of the document is a line of the output.
C18_StrayColumnKeepsContent ==
    pc = "markdown" =>
        \A text \in ParagraphTexts(payload.children) :
            \E k \in 1..Len(Split(markdown, "\n")) :
                Strip(Split(markdown, "\n")[k]) = text

-----------------------------------------------------------------------------
(* api_to_payload on snapshots with tables                                   *)

\* The cells of a generated table_row: rich_text arrays with and without an
\* empty span.
ApiCells ==
    {<<>>,
     <<ApiSpan(<<"a">>, <<"a">>)>>,
     <<ApiSpan(<<>>, <<>>)>>,
     <<ApiSpan(<<"a">>, <<"a">>), ApiSpan(<<>>, <<>>)>>}

ApiTableRows ==
    {ApiBlock("table_row", [cells |-> cells]) : cells \in SeqsOf(ApiCells, 1, MaxCols)}

ApiTablesUpTo(max_rows) ==
    {WithChildren(ApiBlock("table", [table_width |-> Len(rows[1].table_row.cells),
                                     has_column_header |-> TRUE,
                                     has_row_header |-> FALSE]),
                  shape, rows) :
        shape \in {"top", "nested"}, rows \in SeqsOf(ApiTableRows, 1, max_rows)}

TableSnapshotsUpTo(max_rows) ==
    {<<b>> : b \in ApiTablesUpTo(max_rows) \cup {ApiBlock("paragraph", [rich_text |-> rt]) :
                                      rt \in ApiRichTexts}}

InitCleanTable ==
    /\ requests = Unused
    /\ remote = Unused
    /\ frames = Unused
    /\ pc = "snapshot"
    /\ api_response \in TableSnapshotsUpTo(MaxSiblings)
    /\ payload = Unused
    /\ payload2 = Unused
    /\ markdown = Unused
    /\ markdown2 = Unused
    /\ numbered_list_counters_by_indent = Unused
    /\ in_numbered_list_by_indent = Unused
    /\ outputs = Unused
    /\ inputs = api_response

NextCleanTable == ApiToPayload

SpecCleanTable == InitCleanTable /\ [][NextCleanTable]_vars

\* No span of the rich_text array is a text span with empty content and no
\* link.
NoEmptySpan(rich_text) ==
    \A i \in 1..Len(rich_text) :
        ~ /\ Get(rich_text[i], "type", "None") = "text"
          /\ Get(Get(rich_text[i], "text", EmptyDict), "content", <<>>) = <<>>
          /\ ~Has(Get(rich_text[i], "text", EmptyDict), "link")

\* The rich_text arrays of a block: the one under its type key and, for a
\* table_row, each of its cells.
RichTextsOf(block) ==
    LET data == Get(block, block.type, EmptyDict)
    IN  {Get(data, "rich_text", <<>>)}
        \cup {Get(data, "cells", <<>>)[c] : c \in 1..Len(Get(data, "cells", <<>>))}

\* C19: after api_to_payload every rich_text array of every block that is
\* no code block, each cell of a table_row included, holds no text span
\* with empty content and no link.
C19_NoEmptySpans ==
    pc = "payload" =>
        \A i \in 1..Len(AllBlocks(payload.children)) :
            AllBlocks(payload.children)[i].type # "code" =>
                \A rich_text \in RichTextsOf(AllBlocks(payload.children)[i]) :
                    NoEmptySpan(rich_text)

-----------------------------------------------------------------------------
(* Grouping wrappers in the payload of api_to_payload                        *)

GroupingTypes == {"bulleted_list", "numbered_list"}

\* The blocks of a block list that are no grouping wrappers, at every depth
\* and in document order: per block its type and the contents of its spans.
Ungrouped(blocks) ==
    LET all == AllBlocks(blocks)
        kept == SelectSeq([i \in 1..Len(all) |-> i],
                          LAMBDA i : Get(all[i], "type", "None") \notin GroupingTypes)
    IN  [k \in 1..Len(kept) |->
            [type |-> Get(all[kept[k]], "type", "None"),
             text |-> SpanContents(Get(Get(all[kept[k]], Get(all[kept[k]], "type", "None"),
                                           EmptyDict), "rich_text", <<>>))]]

\* C20: the payload of api_to_payload holds no bulleted_list or numbered_list
\* block at any depth; each wrapper, also one inside another wrapper, is
\* replaced by its own children in their order, so the other blocks of the
\* snapshot come out in the order they had.
C20_NoGroupingWrappers ==
    pc = "payload" =>
        /\ \A i \in 1..Len(AllBlocks(payload.children)) :
              AllBlocks(payload.children)[i].type \notin GroupingTypes
        /\ [k \in 1..Len(Ungrouped(payload.children)) |->
               Ungrouped(payload.children)[k].type]
           = [k \in 1..Len(Ungrouped(inputs)) |-> Ungrouped(inputs)[k].type]

-----------------------------------------------------------------------------
(* Where the payload of api_to_payload keeps children                        *)

ColumnTypes == {"column_list", "column"}

\* The children of the block sit where its type wants them: under the type
\* key for a column_list and a column, at the top level for every other.
ChildrenWhereDue(block) ==
    IF block.type \in ColumnTypes
    THEN ~Has(block, "children")
    ELSE ~Has(Get(block, block.type, EmptyDict), "children")

\* C21: in the sanitized payload the children of every block other than
\* column_list and column sit in the top-level children list and never
\* under the type payload, whichever shape the snapshot used and in the
\* original order; those of column_list and column sit only under the type
\* payload.
C21_ChildrenPlacement ==
    pc = "payload" =>
        /\ \A i \in 1..Len(AllBlocks(payload.children)) :
              ChildrenWhereDue(AllBlocks(payload.children)[i])
        /\ [k \in 1..Len(Ungrouped(payload.children)) |->
               Ungrouped(payload.children)[k].type]
           = [k \in 1..Len(Ungrouped(inputs)) |-> Ungrouped(inputs)[k].type]

-----------------------------------------------------------------------------
(* _parse_inline_formatting on texts made of marked and plain fragments      *)

\* Plain text, marked text, marked text with other markers inside, and a
\* marker that is never closed.
InlineFragments ==
    {<<"x", " ">>,
     <<"*", "b", "*">>,
     <<"*", "*", "~", "~", "c", "~", "~", "*", "*">>,
     <<"$", "e", "$">>,
     <<"[", "t", "]", "(", "u", ")">>,
     <<Backtick, "*", "k", "*", Backtick>>,
     <<"*">>}

InlineTexts == {Join(parts) : parts \in SeqsOf(InlineFragments, 0, MaxFragments)}

InitInline ==
    /\ requests = Unused
    /\ remote = Unused
    /\ frames = Unused
    /\ pc = "text"
    /\ inputs \in InlineTexts
    /\ outputs = Unused
    /\ api_response = Unused
    /\ payload = Unused
    /\ payload2 = Unused
    /\ markdown = Unused
    /\ markdown2 = Unused
    /\ numbered_list_counters_by_indent = Unused
    /\ in_numbered_list_by_indent = Unused

\* outputs = converter._parse_inline_formatting(inputs)
DecodeInline ==
    /\ pc = "text"
    /\ outputs' = parse_inline_formatting(inputs)
    /\ pc' = "spans"
    /\ UNCHANGED <<api_response, payload, payload2, markdown, markdown2,
                   numbered_list_counters_by_indent, in_numbered_list_by_indent, inputs>>
    /\ UNCHANGED upload_vars

NextInline == DecodeInline

SpecInline == InitInline /\ [][NextInline]_vars

\* Where each pattern first matches the text, 0 for nowhere.
FirstMatches(text) ==
    [p \in 1..Len(InlinePatterns) |-> SearchStart(InlinePatterns[p].pattern, text)]

\* The start of the earliest of the matches, 0 when no pattern matches.
EarliestStart(found) ==
    IF \A p \in 1..Len(InlinePatterns) : found[p] = 0 THEN 0
    ELSE MinOf({found[p] : p \in 1..Len(InlinePatterns)} \ {0})

\* The first pattern of the list whose match starts at `start`.
EarliestPattern(found, start) ==
    InlinePatterns[MinOf({p \in 1..Len(InlinePatterns) : found[p] = start})]

RECURSIVE ScanDue(_)

\* m is the match of a pattern of the given type that starts at `start`.
ScanBehind(text, start, pattern_type, m) ==
    (IF start > 1 THEN <<create_plain_text(SubSeq(text, 1, start - 1))>> ELSE <<>>)
    \o <<matched_span(pattern_type, m.groups)>>
    \o ScanDue(From(text, m.end))

ScanMatch(text, start, pattern) ==
    ScanBehind(text, start, pattern.type, MatchFrom(pattern.pattern, 1, text, start, <<>>))

ScanAt(text, found, start) ==
    IF start = 0 THEN <<create_plain_text(text)>>
    ELSE ScanMatch(text, start, EarliestPattern(found, start))

ScanFound(text, found) == ScanAt(text, found, EarliestStart(found))

\* The spans the scan of the claim gives: the text before the earliest match
\* as one plain span, the span of the match with its captured content as it
\* stands, then the scan of the text behind the match; the text left when
\* nothing matches as one plain span.
ScanDue(text) ==
    IF text = <<>> THEN <<>> ELSE ScanFound(text, FirstMatches(text))

\* C22: inline decoding scans left to right and takes at each step the
\* pattern whose match starts earliest, the declaration order deciding
\* between equal starts; the text before the match is one plain span, the
\* captured content is taken as it stands, and the text left when nothing
\* matches is a final plain span.
C22_EarliestMatchWins ==
    pc = "spans" => outputs = ScanDue(inputs)

\* A text was decoded in which a bold match holds strikethrough markers and
\* a later pattern of the list matches before an earlier one: the bold span
\* keeps the markers, and the equation comes last.
C22_Witness ==
    /\ pc = "spans"
    /\ inputs = <<"x", " ", "*", "*", "~", "~", "c", "~", "~", "*", "*", "$", "e", "$">>
    /\ Len(outputs) = 3
    /\ outputs[2].text.content = <<"~", "~", "c", "~", "~">>
    /\ outputs[2].annotations.bold
    /\ outputs[3].type = "equation"

-----------------------------------------------------------------------------
(* create_page_from_payload and the Notion client it drives.  `requests` is  *)
(* the log of the client calls; `remote` is what the workspace holds:        *)
(* next_id, the id the next created block gets, and kids, per parent id the  *)
(* created blocks [id, block] in order (the page has id 0); `frames` holds   *)
(* the locals of create_page_from_payload and, in stack, one frame per       *)
(* running _append_children_recursive call.                                  *)

\* The number of blocks of one request (source: range(.., .., 100), [:100]).
BlockLimit == 100

PageId == 0

\* blocks[i:] for a 0-based i: a chunk that would not stop at the limit
chunk_rest(blocks, i) == SubSeq(blocks, i + 1, Len(blocks))

\* blocks[i:i+100] for a 0-based i
chunk_of(blocks, i) ==
    SubSeq(blocks, i + 1, IF i + BlockLimit < Len(blocks) THEN i + BlockLimit ELSE Len(blocks))

\* The keys of generated blocks that start with an underscore.
UnderscoreKeys == {"_source"}

\* _remove_underscore_keys on a block list: the keys are dropped from each
\* block, from the dict under its type key and from the children of both
RECURSIVE remove_underscore_keys(_)
remove_underscore_keys(blocks) ==
    [i \in 1..Len(blocks) |->
        LET b == [k \in (DOMAIN blocks[i]) \ UnderscoreKeys |-> blocks[i][k]]
            data == [k \in (DOMAIN b[b.type]) \ UnderscoreKeys |-> b[b.type][k]]
            data1 == IF Has(data, "children")
                     THEN Put(data, "children", remove_underscore_keys(data.children))
                     ELSE data
            b1 == Put(b, b.type, data1)
        IN  IF Has(b1, "children")
            THEN Put(b1, "children", remove_underscore_keys(b1.children))
            ELSE b1]

\* _split_block_and_children
split_block_and_children(block) ==
    IF block.type \in {"column_list", "column", "table"}
    THEN [block |-> block, children |-> <<>>]
    ELSE LET top == Get(block, "children", <<>>)
             b1 == Del(block, "children")
             data == b1[b1.type]
         IN  IF Has(data, "children")
             THEN [block |-> Put(b1, b1.type, Del(data, "children")),
                   children |-> IF top # <<>> THEN top ELSE data.children]
             ELSE [block |-> b1, children |-> top]

\* _prepare_blocks_for_creation
prepare_blocks_for_creation(blocks) ==
    [flat_blocks |-> [i \in 1..Len(blocks) |-> split_block_and_children(blocks[i]).block],
     pending_children |->
         [i \in 1..Len(blocks) |-> split_block_and_children(blocks[i]).children]]

\* The client creates the blocks under a parent: each gets the next id.
client_created(workspace, children) ==
    [k \in 1..Len(children) |-> [id |-> workspace.next_id + k - 1, block |-> children[k]]]

\* client.pages.create(children=...) and client.blocks.children.append
client_append(workspace, block_id, children) ==
    [next_id |-> workspace.next_id + Len(children),
     kids |-> Put(workspace.kids, block_id,
                  Get(workspace.kids, block_id, <<>>)
                  \o client_created(workspace, children))]

\* client.blocks.children.list(block_id, page_size=100, start_cursor): the
\* cursor is the number of blocks already listed
client_list(workspace, block_id, start_cursor) ==
    LET all == Get(workspace.kids, block_id, <<>>)
    IN  [results |-> chunk_of(all, start_cursor),
         has_more |-> start_cursor + BlockLimit < Len(all),
         next_cursor |-> start_cursor + BlockLimit]

\* The frame of a call _append_children_recursive(parent_block_id,
\* children_blocks) before its first chunk: i is the start of the next chunk,
\* created and nested_chunk the lists its inner loop zips, j the next pair.
append_frame(parent_block_id, children_blocks) ==
    [parent_block_id |-> parent_block_id,
     flat_children |-> prepare_blocks_for_creation(children_blocks).flat_blocks,
     pending_nested |-> prepare_blocks_for_creation(children_blocks).pending_children,
     i |-> 0, created |-> <<>>, nested_chunk |-> <<>>, j |-> 1]

\* The next pair of zip(created, pending) from pair j on whose children are
\* not empty; past the shorter list when there is none.
next_pending(created, pending, j) ==
    LET last == IF Len(created) < Len(pending) THEN Len(created) ELSE Len(pending)
        hits == {k \in j..last : pending[k] # <<>>}
    IN  IF hits = {} THEN last + 1 ELSE MinOf(hits)

\* response = client.pages.create(**payload) with children =
\* top_level_blocks[:100] (source lines 122-215)
CreatePage ==
    /\ pc = "call"
    /\ LET prepared == prepare_blocks_for_creation(remove_underscore_keys(payload.children))
           first == chunk_of(prepared.flat_blocks, 0)
       IN  /\ payload' = Put(payload, "children", first)
           /\ requests' = <<[op |-> "pages.create", children |-> first]>>
           /\ remote' = client_append(remote, PageId, first)
           /\ frames' = [top_level_blocks |-> prepared.flat_blocks,
                         pending_top_level_children |-> prepared.pending_children,
                         i |-> BlockLimit, created_top_level |-> <<>>,
                         start_cursor |-> 0, j |-> 1, stack |-> <<>>]
           /\ pc' = IF Len(prepared.flat_blocks) > BlockLimit THEN "append" ELSE "list"
    /\ UNCHANGED <<api_response, payload2, markdown, markdown2,
                   numbered_list_counters_by_indent, in_numbered_list_by_indent,
                   outputs, inputs>>

\* one pass of the loop of source lines 218-221
AppendTopLevel ==
    /\ pc = "append"
    /\ requests' = Append(requests,
                          [op |-> "blocks.children.append", block_id |-> PageId,
                           children |-> chunk_of(frames.top_level_blocks, frames.i)])
    /\ remote' = client_append(remote, PageId, chunk_of(frames.top_level_blocks, frames.i))
    /\ frames' = [frames EXCEPT !.i = @ + BlockLimit]
    /\ pc' = IF frames.i + BlockLimit < Len(frames.top_level_blocks) THEN "append" ELSE "list"
    /\ UNCHANGED <<api_response, payload, payload2, markdown, markdown2,
                   numbered_list_counters_by_indent, in_numbered_list_by_indent,
                   outputs, inputs>>

\* one pass of the while loop of source lines 226-234
ListTopLevel ==
    /\ pc = "list"
    /\ LET children_page == client_list(remote, PageId, frames.start_cursor)
       IN  /\ requests' = Append(requests,
                                 [op |-> "blocks.children.list", block_id |-> PageId,
                                  start_cursor |-> frames.start_cursor])
           /\ frames' = [frames EXCEPT
                            !.created_top_level = @ \o children_page.results,
                            !.start_cursor = IF children_page.has_more
                                             THEN children_page.next_cursor ELSE @]
           /\ pc' = IF children_page.has_more THEN "list" ELSE "nested"
    /\ UNCHANGED <<api_response, payload, payload2, markdown, markdown2,
                   numbered_list_counters_by_indent, in_numbered_list_by_indent,
                   outputs, inputs, remote>>

\* the loop of source lines 237-239, up to its next call of
\* _append_children_recursive
AppendNestedOfTopLevel ==
    /\ pc = "nested"
    /\ frames.stack = <<>>
    /\ LET j == next_pending(frames.created_top_level,
                             frames.pending_top_level_children, frames.j)
       IN  /\ j <= Len(frames.created_top_level)
           /\ j <= Len(frames.pending_top_level_children)
           /\ frames' = [frames EXCEPT
                            !.j = j + 1,
                            !.stack = <<append_frame(frames.created_top_level[j].id,
                                            frames.pending_top_level_children[j])>>]
    /\ UNCHANGED <<pc, api_response, payload, payload2, markdown, markdown2,
                   numbered_list_counters_by_indent, in_numbered_list_by_indent,
                   outputs, inputs, requests, remote>>

\* the loop of source lines 237-239 is over: return response
ReturnResponse ==
    /\ pc = "nested"
    /\ frames.stack = <<>>
    /\ next_pending(frames.created_top_level, frames.pending_top_level_children, frames.j)
           > (IF Len(frames.created_top_level) < Len(frames.pending_top_level_children)
              THEN Len(frames.created_top_level)
              ELSE Len(frames.pending_top_level_children))
    /\ pc' = "returned"
    /\ UNCHANGED <<api_response, payload, payload2, markdown, markdown2,
                   numbered_list_counters_by_indent, in_numbered_list_by_indent,
                   outputs, inputs, requests, remote, frames>>

\* The innermost running _append_children_recursive call.
TopFrame == frames.stack[Len(frames.stack)]

\* Its zip of created and nested_chunk has a pair with children left.
PairLeft(frame) ==
    /\ next_pending(frame.created, frame.nested_chunk, frame.j) <= Len(frame.created)
    /\ next_pending(frame.created, frame.nested_chunk, frame.j) <= Len(frame.nested_chunk)

\* _append_children_recursive, source lines 190-195: the next chunk is
\* appended
AppendChunk ==
    /\ pc = "nested"
    /\ frames.stack # <<>>
    /\ ~PairLeft(TopFrame)
    /\ TopFrame.i < Len(TopFrame.flat_children)
    /\ requests' = Append(requests,
                          [op |-> "blocks.children.append",
                           block_id |-> TopFrame.parent_block_id,
                           children |-> chunk_of(TopFrame.flat_children, TopFrame.i)])
    /\ remote' = client_append(remote, TopFrame.parent_block_id,
                               chunk_of(TopFrame.flat_children, TopFrame.i))
    /\ frames' = [frames EXCEPT !.stack[Len(frames.stack)] =
                     [@ EXCEPT !.i = @ + BlockLimit,
                               !.created = client_created(remote,
                                               chunk_of(TopFrame.flat_children, TopFrame.i)),
                               !.nested_chunk = chunk_of(TopFrame.pending_nested, TopFrame.i),
                               !.j = 1]]
    /\ UNCHANGED <<pc, api_response, payload, payload2, markdown, markdown2,
                   numbered_list_counters_by_indent, in_numbered_list_by_indent,
                   outputs, inputs>>

\* _append_children_recursive, source lines 198-200, up to the next
\* recursive call
AppendNestedOfChunk ==
    /\ pc = "nested"
    /\ frames.stack # <<>>
    /\ PairLeft(TopFrame)
    /\ LET j == next_pending(TopFrame.created, TopFrame.nested_chunk, TopFrame.j)
       IN  frames' = [frames EXCEPT !.stack =
                         SubSeq(@, 1, Len(@) - 1) \o <<[TopFrame EXCEPT !.j = j + 1]>>
                         \o <<append_frame(TopFrame.created[j].id,
                                           TopFrame.nested_chunk[j])>>]
    /\ UNCHANGED <<pc, api_response, payload, payload2, markdown, markdown2,
                   numbered_list_counters_by_indent, in_numbered_list_by_indent,
                   outputs, inputs, requests, remote>>

\* _append_children_recursive returns: no chunk and no pair is left
ReturnFromAppend ==
    /\ pc = "nested"
    /\ frames.stack # <<>>
    /\ ~PairLeft(TopFrame)
    /\ TopFrame.i >= Len(TopFrame.flat_children)
    /\ frames' = [frames EXCEPT !.stack = SubSeq(@, 1, Len(@) - 1)]
    /\ UNCHANGED <<pc, api_response, payload, payload2, markdown, markdown2,
                   numbered_list_counters_by_indent, in_numbered_list_by_indent,
                   outputs, inputs, requests, remote>>

NextUpload ==
    \/ CreatePage
    \/ AppendTopLevel
    \/ ListTopLevel
    \/ AppendNestedOfTopLevel
    \/ ReturnResponse
    \/ AppendChunk
    \/ AppendNestedOfChunk
    \/ ReturnFromAppend

\* The payloads handed to create_page_from_payload.  A block reads its path:
\* <<i>> for top-level block i, <<i, k>> for its child k.
UploadLeaf(path) ==
    [object |-> "block", type |-> "paragraph",
     paragraph |-> [rich_text |-> <<TextSpan(path)>>]]

\* A block with children: a toggle keeps them at the top level ("top"), a
\* bulleted item under its type key ("nested"), and a column_list under its
\* type key, where they stay on creation ("kept").
UploadParent(path, shape, kids) ==
    IF shape = "top"
    THEN [object |-> "block", type |-> "toggle", _source |-> "api",
          toggle |-> [rich_text |-> <<TextSpan(path)>>], children |-> kids]
    ELSE IF shape = "nested"
    THEN [object |-> "block", type |-> "bulleted_list_item", _source |-> "api",
          bulleted_list_item |-> [rich_text |-> <<TextSpan(path)>>, children |-> kids]]
    ELSE [object |-> "block", type |-> "column_list", _source |-> "api",
          column_list |-> [rich_text |-> <<TextSpan(path)>>, children |-> kids]]

TopCounts == {0, 1, 100, 101, 201}

ChildCounts == {1, 101}

GrandCounts == {0, 2}

\* The children of the parent at top-level place `at`: c blocks, the last
\* with g children of its own when g > 0.
UploadKids(at, c, g) ==
    [k \in 1..c |->
        IF k = c /\ g > 0
        THEN UploadParent(<<at, k>>, IF at = 1 THEN "nested" ELSE "top",
                          [m \in 1..g |-> UploadLeaf(<<at, k, m>>)])
        ELSE UploadLeaf(<<at, k>>)]

\* n top-level blocks; block `at` (none for 0) is a parent of the shape.
UploadPayload(n, at, shape, c, g) ==
    Document([i \in 1..n |->
                 IF i = at THEN UploadParent(<<i>>, shape, UploadKids(at, c, g))
                 ELSE UploadLeaf(<<i>>)])

UploadPayloads ==
    {UploadPayload(n, 0, "top", 1, 0) : n \in TopCounts}
    \cup {UploadPayload(n, at, shape, c, g) :
             n \in TopCounts \ {0}, at \in {1, 101, 201}, shape \in {"top", "nested", "kept"},
             c \in ChildCounts, g \in GrandCounts}

InitUpload ==
    /\ pc = "call"
    /\ payload \in UploadPayloads
    /\ inputs = payload
    /\ requests = <<>>
    /\ remote = [next_id |-> 1, kids |-> EmptyDict]
    /\ frames = Unused
    /\ api_response = Unused
    /\ payload2 = Unused
    /\ markdown = Unused
    /\ markdown2 = Unused
    /\ numbered_list_counters_by_indent = Unused
    /\ in_numbered_list_by_indent = Unused
    /\ outputs = Unused

SpecUpload == InitUpload /\ [][NextUpload]_vars

\* The children of a block of the payload that are to be appended under it:
\* none for a column_list, which carries them in its own request.
NestedChildren(block) ==
    IF block.type = "column_list" THEN <<>>
    ELSE Get(block, "children", <<>>) \o Get(block[block.type], "children", <<>>)

\* The block as a request carries it: without underscore keys and without
\* the children that are appended under it.
AsSent(block) ==
    LET c == remove_underscore_keys(<<block>>)[1]
    IN  IF block.type = "column_list" THEN c
        ELSE Put(Del(c, "children"), c.type, Del(c[c.type], "children"))

AllAsSent(blocks) == [k \in 1..Len(blocks) |-> AsSent(blocks[k])]

\* The block of the payload that reads the path.
RECURSIVE BlockAt(_, _)
BlockAt(blocks, path) ==
    IF Len(path) = 1 THEN blocks[path[1]]
    ELSE BlockAt(NestedChildren(blocks[path[1]]), Tail(path))

\* The requests that carry blocks, and the parent a request sends them to.
Sends == SelectSeq(requests, LAMBDA r : r.op # "blocks.children.list")

SentTo(r) == IF r.op = "pages.create" THEN PageId ELSE r.block_id

\* The blocks sent to a parent, over all requests in order.
RECURSIVE BlocksSentTo(_, _)
BlocksSentTo(sends, id) ==
    IF sends = <<>> THEN <<>>
    ELSE (IF SentTo(Head(sends)) = id THEN Head(sends).children ELSE <<>>)
         \o BlocksSentTo(Tail(sends), id)

\* The created blocks of the workspace, of every parent.
CreatedBlocks == UNION {{remote.kids[id][k] : k \in 1..Len(remote.kids[id])} :
                        id \in DOMAIN remote.kids}

-----------------------------------------------------------------------------
(* markdown_to_payload on body texts with indented lines                     *)

\* The lines of the texts, each with the text it holds: a paragraph, a plain
\* heading, a quote, a divider (no text), a bulleted item, and lines
\* indented by one and by two levels.
BodyLineTexts ==
    {[line |-> <<"a">>, text |-> <<"a">>],
     [line |-> <<"#", " ", "h">>, text |-> <<"h">>],
     [line |-> <<">", " ", "q">>, text |-> <<"q">>],
     [line |-> Dashes, text |-> <<>>],
     [line |-> <<"-", " ", "i">>, text |-> <<"i">>],
     [line |-> <<" ", " ", "b">>, text |-> <<"b">>],
     [line |-> <<" ", " ", " ", " ", "c">>, text |-> <<"c">>]}

IndentedTexts ==
    {JoinWith([k \in 1..Len(lines) |-> lines[k].line], "\n") :
        lines \in SeqsOf(BodyLineTexts, 1, MaxLines)}

InitIndented ==
    /\ pc = "text"
    /\ inputs \in IndentedTexts
    /\ api_response = Unused
    /\ payload = Unused
    /\ payload2 = Unused
    /\ markdown = Unused
    /\ markdown2 = Unused
    /\ numbered_list_counters_by_indent = Unused
    /\ in_numbered_list_by_indent = Unused
    /\ outputs = Unused
    /\ requests = Unused
    /\ remote = Unused
    /\ frames = Unused

NextIndented == ParseMarkdown

SpecIndented == InitIndented /\ [][NextIndented]_vars

\* The lines of a text outside its front matter.
BodyOf(lines) == IF ClosedFrontMatter(lines) THEN BodyBehind(lines) ELSE lines

\* C24: markdown_to_payload loses no body text: every non-blank line outside
\* the front matter gives its text to some block of the result, also a line
\* indented deeper than the paragraph, heading, quote or divider before it
\* and an indented first line.
C24_NoBodyTextLost ==
    pc = "payload" =>
        \A k \in 1..Len(BodyOf(Split(inputs, "\n"))) :
            \A lt \in BodyLineTexts :
                BodyOf(Split(inputs, "\n"))[k] = lt.line /\ lt.text # <<>>
                    => \E i \in 1..Len(AllBlocks(payload.children)) :
                          BlockText(AllBlocks(payload.children)[i]) = lt.text

-----------------------------------------------------------------------------
(* The round trip of documents with dividers                                 *)

DividerBlock == [type |-> "divider", divider |-> EmptyDict]

DividerBlocks == {DividerBlock, PlainParagraph(<<"a">>), PlainParagraph(<<"b">>)}

DividerDocuments == {Document(blocks) : blocks \in SeqsOf(DividerBlocks, 1, MaxBlocks + 1)}

InitDivider ==
    /\ pc = "payload"
    /\ payload \in DividerDocuments
    /\ api_response = Unused
    /\ payload2 = Unused
    /\ markdown = Unused
    /\ markdown2 = Unused
    /\ numbered_list_counters_by_indent = Unused
    /\ in_numbered_list_by_indent = Unused
    /\ outputs = Unused
    /\ inputs = Unused
    /\ requests = Unused
    /\ remote = Unused
    /\ frames = Unused

NextDivider == Serialize \/ Reparse

SpecDivider == InitDivider /\ [][NextDivider]_vars

\* C25: a Document whose first top-level block is a divider survives the
\* round trip also when a later top-level block is a divider: the reparsed
\* Document opens with a divider block and holds every block of the
\* original, the leading "---" not being taken for a front matter delimiter.
C25_LeadingDividerKept ==
    pc = "payload2" /\ payload.children[1].type = "divider" =>
        /\ payload2.children # <<>>
        /\ payload2.children[1].type = "divider"
        /\ KindsOf(payload2.children) = KindsOf(payload.children)
        /\ [k \in 1..Len(payload2.children) |-> BlockText(payload2.children[k])]
           = [k \in 1..Len(payload.children) |-> BlockText(payload.children[k])]

-----------------------------------------------------------------------------
(* The round trip of tables without a column header                          *)

\* The table of a generated document with has_column_header set to FALSE;
\* the cells hold text, so that no row reads as a separator row.
HeaderlessDocumentsUpTo(max_rows, max_cols) ==
    UNION {{Document(<<[TableBlock(width, rows)
                           EXCEPT !.table.has_column_header = FALSE]>>) :
               rows \in SeqsOf([1..width -> CellTexts \ {<<>>}], 1, max_rows)} :
           width \in 1..max_cols}

InitHeaderless ==
    /\ pc = "payload"
    /\ payload \in HeaderlessDocumentsUpTo(MaxRows, MaxCols)
    /\ api_response = Unused
    /\ payload2 = Unused
    /\ markdown = Unused
    /\ markdown2 = Unused
    /\ numbered_list_counters_by_indent = Unused
    /\ in_numbered_list_by_indent = Unused
    /\ outputs = Unused
    /\ inputs = Unused
    /\ requests = Unused
    /\ remote = Unused
    /\ frames = Unused

NextHeaderless == Serialize \/ Reparse

SpecHeaderless == InitHeaderless /\ [][NextHeaderless]_vars

\* C26: a table block without a column header and with n >= 1 rows is
\* reparsed, after serialization, as exactly one table block without a
\* column header and with n rows; its first row is no paragraph.
C26_HeaderlessTableRoundTrip ==
    pc = "payload2" =>
        /\ Len(payload2.children) = 1
        /\ payload2.children[1].type = "table"
        /\ ~payload2.children[1].table.has_column_header
        /\ Len(NestedChildren(payload2.children[1]))
           = Len(payload.children[1].table.children)

-----------------------------------------------------------------------------
(* The round trip of nested list items and toggles                           *)

ListKinds == {"bulleted_list_item", "numbered_list_item", "to_do", "toggle"}

ItemTexts == <<<<"a">>, <<"b">>, <<"c">>, <<"d">>>>

\* A chain of items: the item of kinds[level] reads ItemTexts[level] and is
\* the one child of the item before it.
RECURSIVE ItemChain(_, _)
ItemChain(kinds, level) ==
    LET item == Put([object |-> "block", type |-> kinds[level]], kinds[level],
                    [rich_text |-> <<TextSpan(ItemTexts[level])>>])
    IN  IF level = Len(kinds) THEN item
        ELSE Put(item, "children", <<ItemChain(kinds, level + 1)>>)

ChainDocumentsUpTo(max_depth) ==
    {Document(<<ItemChain(kinds, 1)>>) : kinds \in SeqsOf(ListKinds, 1, max_depth)}

InitChain ==
    /\ pc = "payload"
    /\ payload \in ChainDocumentsUpTo(MaxDepth)
    /\ api_response = Unused
    /\ payload2 = Unused
    /\ markdown = Unused
    /\ markdown2 = Unused
    /\ numbered_list_counters_by_indent = Unused
    /\ in_numbered_list_by_indent = Unused
    /\ outputs = Unused
    /\ inputs = Unused
    /\ requests = Unused
    /\ remote = Unused
    /\ frames = Unused

NextChain == Serialize \/ Reparse

SpecChain == InitChain /\ [][NextChain]_vars

\* C27: nesting survives the round trip for every mix of list kinds and
\* every depth: the indent level the parser computes for the line of a child
\* is greater than the one it computes for the line of its parent, and the
\* child is attached to the same parent again.
C27_NestingSurvives ==
    /\ pc = "markdown" =>
          \A k \in 1..(Len(Split(markdown, "\n")) - 1) :
              get_indent_level(Split(markdown, "\n")[k + 1])
                  > get_indent_level(Split(markdown, "\n")[k])
    /\ pc = "payload2" => ForestOf(payload2.children) = ForestOf(payload.children)

-----------------------------------------------------------------------------
(* The ordered-list markers of the serializer, read by the parser            *)

MarkerLevels == 0..2

\* The line of a numbered item at a level, as _convert_numbered_list lays it
\* out: three spaces for each level, the marker, a space and the text.
MarkerLine(count, level, text) ==
    Repeat(" ", 3 * level) \o format_ordered_list_marker(count, level)
        \o <<" ">> \o text

\* The item of ordinal count at a level under one first item of every level
\* above it.
MarkerText(count, level) ==
    JoinWith([l \in 1..(level + 1) |->
                 IF l = level + 1 THEN MarkerLine(count, level, <<"t">>)
                 ELSE MarkerLine(1, l - 1, <<"p">>)], "\n")

InitMarker ==
    /\ pc = "text"
    /\ inputs \in {MarkerText(count, level) :
                       count \in 1..MaxCount, level \in MarkerLevels}
    /\ api_response = Unused
    /\ payload = Unused
    /\ payload2 = Unused
    /\ markdown = Unused
    /\ markdown2 = Unused
    /\ numbered_list_counters_by_indent = Unused
    /\ in_numbered_list_by_indent = Unused
    /\ outputs = Unused
    /\ requests = Unused
    /\ remote = Unused
    /\ frames = Unused

NextMarker == ParseMarkdown

SpecMarker == InitMarker /\ [][NextMarker]_vars

\* C28: every ordered-list marker the serializer can emit is read by the
\* parser's ordered-item rule: for every count and every level the line built
\* from format_ordered_list_marker parses as a numbered_list_item with the
\* same text, the two-letter alphabetic markers behind z. included.
C28_MarkerRecognised ==
    pc = "payload" =>
        \A count \in 1..MaxCount : \A level \in MarkerLevels :
            inputs = MarkerText(count, level) =>
                LET blocks == AllBlocks(payload.children)
                IN  /\ Len(blocks) = level + 1
                    /\ Get(blocks[Len(blocks)], "type", "None") = "numbered_list_item"
                    /\ BlockText(blocks[Len(blocks)]) = <<"t">>

-----------------------------------------------------------------------------
(* The ordinals of numbered items in the child lists of several parents     *)

ListItem(kind, content) ==
    Put([object |-> "block", type |-> kind], kind,
        [rich_text |-> <<TextSpan(content)>>])

HeldKinds == {"numbered_list_item", "bulleted_list_item"}

HolderMarks == <<"x", "y">>

\* The child list of the holder at position h: the item at position j reads
\* the holder's mark followed by the letter of j.
HeldList(kinds, h) ==
    [j \in 1..Len(kinds) |-> ListItem(kinds[j], <<HolderMarks[h], Letters[j]>>)]

HeldLists(max_siblings) ==
    [1..2 -> SeqsOf(HeldKinds, 1, max_siblings)]

\* Two list items with a child list each, and a column_list of two columns
\* with a child list each.
HolderDocumentsUpTo(max_siblings) ==
    {Document([h \in 1..2 |->
                  Put(ListItem(parents[h], <<"p">>), "children",
                      HeldList(lists[h], h))]) :
         parents \in [1..2 -> HeldKinds], lists \in HeldLists(max_siblings)}
    \cup
    {Document(<<[type |-> "column_list",
                 column_list |->
                     [children |->
                         [h \in 1..2 |->
                             [type |-> "column",
                              column |-> [children |-> HeldList(lists[h], h)]]]]]>>) :
         lists \in HeldLists(max_siblings)}

InitHolder ==
    /\ pc = "payload"
    /\ payload \in HolderDocumentsUpTo(MaxSiblings)
    /\ api_response = Unused
    /\ payload2 = Unused
    /\ markdown = Unused
    /\ markdown2 = Unused
    /\ numbered_list_counters_by_indent = Unused
    /\ in_numbered_list_by_indent = Unused
    /\ outputs = Unused
    /\ inputs = Unused
    /\ requests = Unused
    /\ remote = Unused
    /\ frames = Unused

NextHolder == Serialize

SpecHolder == InitHolder /\ [][NextHolder]_vars

\* The child lists of a document's holders and the indent level they are
\* written at: the columns of a column_list at level 0, the children of the
\* top-level list items at level 1.
HeldOf(document) ==
    IF document.children[1].type = "column_list"
    THEN [level |-> 0,
          lists |-> [h \in 1..Len(document.children[1].column_list.children) |->
                        document.children[1].column_list.children[h].column.children]]
    ELSE [level |-> 1,
          lists |-> [h \in 1..Len(document.children) |->
                        document.children[h].children]]

FirstNumbered(blocks) ==
    MinOf({j \in 1..Len(blocks) : blocks[j].type = "numbered_list_item"})

\* C29: in one serialization the first numbered_list_item among the children
\* of any parent is written with ordinal 1 (a. at level 1), also when the
\* child list of an earlier parent at the same depth, or an earlier column of
\* the same column_list, ended with a numbered item.
C29_FirstChildOrdinalOne ==
    pc = "markdown" =>
        \A h \in 1..Len(HeldOf(payload).lists) :
            LET blocks == HeldOf(payload).lists[h]
                lines == Split(markdown, "\n")
            IN  (\E j \in 1..Len(blocks) : blocks[j].type = "numbered_list_item")
                    => \E k \in 1..Len(lines) :
                          lines[k] = MarkerLine(1, HeldOf(payload).level,
                                                BlockText(blocks[FirstNumbered(blocks)]))

-----------------------------------------------------------------------------
(* The line cursor of markdown_to_payload, one loop iteration at a time.    *)
(* inputs is self.lines, the lines convert_markdown split the text into;    *)
(* outputs is [cursor, start, steps]: current_line_index, its value when    *)
(* the running iteration of the loop of _parse_blocks began, and the calls  *)
(* of _parse_block so far.  frames is the stack of the running loops of     *)
(* _parse_nested_list_items and _parse_nested_blocks, the innermost last:   *)
(* parent_indent, and start, the cursor when its running iteration began.   *)

CursorLines ==
    {<<"a">>,
     <<"-", " ", "b">>,
     <<"-", " ", "p", " ", "|", " ", "q">>,
     <<" ", " ", "-", " ", "c">>,
     <<" ", " ", " ", " ", "d">>,
     <<"|", " ", "x", " ", "|">>,
     <<" ", " ", "|", " ", "y", " ", "|">>,
     <<"|", "-", "|">>,
     <<">", " ", "q">>}

CursorTexts ==
    {JoinWith(lines, "\n") : lines \in SeqsOf(CursorLines, 1, MaxLines)}

InitCursor ==
    /\ pc = "top"
    /\ inputs \in {Split(text, "\n") : text \in CursorTexts}
    /\ outputs = [cursor |-> 0, start |-> -1, steps |-> 0]
    /\ frames = <<>>
    /\ api_response = Unused
    /\ payload = Unused
    /\ payload2 = Unused
    /\ markdown = Unused
    /\ markdown2 = Unused
    /\ numbered_list_counters_by_indent = Unused
    /\ in_numbered_list_by_indent = Unused
    /\ requests = Unused
    /\ remote = Unused

cursor_vars ==
    <<api_response, payload, payload2, markdown, markdown2,
      numbered_list_counters_by_indent, in_numbered_list_by_indent,
      inputs, requests, remote>>

\* _parse_block is called for the line at idx, the running loops being
\* `running`: a line that collects children opens the loop over the lines
\* behind it, any other line is parsed to its end.
EnterParseBlock(lines, idx, start, running) ==
    LET line == lines[idx + 1]
        indent == get_indent_level(line)
    IN  IF CollectsChildren(line)
        THEN /\ frames' = Append(running, [parent_indent |-> indent, start |-> idx])
             /\ outputs' = [cursor |-> idx, start |-> start,
                            steps |-> outputs.steps + 1]
             /\ pc' = "children"
        ELSE /\ frames' = running
             /\ outputs' = [cursor |-> parse_block(lines, idx, Strip(line), indent).idx,
                            start |-> start, steps |-> outputs.steps + 1]
             /\ pc' = "returned"

\* One pass through the head of the loop of _parse_blocks (source lines
\* 69-82): a line indented deeper than the top level is skipped, any other
\* line goes to _parse_block.
ParseBlocksIteration ==
    LET lines == inputs
    IN  /\ pc = "top"
        /\ outputs.cursor < Len(lines)
        /\ IF get_indent_level(lines[outputs.cursor + 1]) > 0
           THEN /\ outputs' = [outputs EXCEPT !.cursor = @ + 1,
                                              !.start = outputs.cursor]
                /\ UNCHANGED <<pc, frames>>
           ELSE EnterParseBlock(lines, outputs.cursor, outputs.cursor, <<>>)
        /\ UNCHANGED cursor_vars

\* The loop of _parse_blocks is over.
ParseBlocksEnd ==
    /\ pc = "top"
    /\ outputs.cursor >= Len(inputs)
    /\ pc' = "done"
    /\ UNCHANGED <<outputs, frames>>
    /\ UNCHANGED cursor_vars

\* The head of the innermost child-collection loop (source lines 424-437):
\* the line behind the cursor, when it is indented deeper than the parent,
\* becomes the cursor's line and goes to _parse_block; otherwise the loop is
\* over and the parent's _parse_block returns.
NestedIteration ==
    LET lines == inputs
        top == frames[Len(frames)]
        temp_index == outputs.cursor + 1
    IN  /\ pc = "children"
        /\ IF temp_index < Len(lines)
              /\ get_indent_level(lines[temp_index + 1]) > top.parent_indent
           THEN EnterParseBlock(lines, temp_index, outputs.start,
                                [frames EXCEPT ![Len(frames)].start = outputs.cursor])
           ELSE /\ frames' = SubSeq(frames, 1, Len(frames) - 1)
                /\ pc' = "returned"
                /\ UNCHANGED outputs
        /\ UNCHANGED cursor_vars

\* _parse_block has returned: to the child-collection loop that called it,
\* which goes on behind the cursor, or to the loop of _parse_blocks, which
\* moves the cursor one line on (source line 86).
ReturnToLoop ==
    /\ pc = "returned"
    /\ IF frames = <<>>
       THEN /\ outputs' = [outputs EXCEPT !.cursor = @ + 1]
            /\ pc' = "top"
       ELSE /\ pc' = "children"
            /\ UNCHANGED outputs
    /\ UNCHANGED frames
    /\ UNCHANGED cursor_vars

NextCursor ==
    \/ ParseBlocksIteration
    \/ ParseBlocksEnd
    \/ NestedIteration
    \/ ReturnToLoop

SpecCursor == InitCursor /\ [][NextCursor]_vars

\* Every finished iteration left the cursor behind the place it began at:
\* of the loop of _parse_blocks when control is at its head again, of the
\* innermost child-collection loop when _parse_block has returned to it; and
\* _parse_block was called at most once for each line.
CursorAdvances ==
    /\ pc = "top" => outputs.cursor > outputs.start
    /\ pc = "returned" /\ frames # <<>>
           => outputs.cursor > frames[Len(frames)].start
    /\ outputs.steps <= Len(inputs)

\* Control is at a place that has a step to take, unless the conversion is
\* over.
CanStep ==
    /\ pc \in {"top", "children", "returned", "done"}
    /\ pc = "children" => frames # <<>>

\* A natural number that every step makes smaller: the lines from the cursor
\* on weigh most, then the loops still running, then the place of control.
PcRank ==
    CASE pc = "top" -> 4
      [] pc = "returned" -> 2
      [] pc = "children" -> 1
      [] OTHER -> 0

CursorRank == 5 * (Len(inputs) + 1 - outputs.cursor) + 2 * Len(frames) + PcRank

\* C30: markdown_to_payload terminates on every finite input: every
\* iteration of the top-level block loop and of the child-collection loops
\* ends with the line cursor strictly greater than at its start, also when
\* table parsing moves the cursor back one line, so the number of
\* block-parsing steps is at most the number of lines.  Termination: every
\* step lowers a rank that never falls below 0, and only a finished
\* conversion has no step to take.
C30_Terminates ==
    /\ [](CursorAdvances /\ CanStep /\ CursorRank >= 0)
    /\ [][CursorRank' < CursorRank]_vars

\* A child-collection loop has got back the cursor from a table that ended
\* before a line without a "|" and stepped back onto its last row.
C30_Witness ==
    /\ pc = "returned"
    /\ frames # <<>>
    /\ outputs.cursor + 1 < Len(inputs)
    /\ is_table_row(inputs, outputs.cursor,
                    Strip(inputs[outputs.cursor + 1]))
    /\ ~Contains(inputs[outputs.cursor + 2], <<"|">>)

====
